---- MODULE Spec2Model ----
(***************************************************************************)
(* A model of the gekitchen ERD value codec and of the appliance state     *)
(* cache (GeAppliance): code resolution, decode/encode dispatch, single    *)
(* and batched updates, change detection and update callbacks.             *)
(*                                                                         *)
(* Python strings are sequences of one-character strings, so that          *)
(* str.lower(), int(s, 16), int(s) and bytes.fromhex(s) are computed       *)
(* character by character.  A Python value is a record                     *)
(*   [kind, ints, strs]                                                    *)
(* whose equality is Python's == on the value kinds of the model.          *)
(***************************************************************************)
EXTENDS Integers, Sequences, FiniteSets, TLC

VARIABLES
    property_cache,     \* GeAppliance._property_cache : resolved code -> value
    update_functions,   \* GeAppliance._update_functions (list of callbacks)
    update_coroutines,  \* GeAppliance._update_coroutines (list of callbacks)
    available,          \* GeAppliance._available
    pc,                 \* "idle", or "batch" inside async_update_erd_values
    batch_used,         \* identifiers of the batch dict already applied
    batch_before,       \* the cache as it was when the running/last batch began
    batch_trigger,      \* trigger_callbacks argument of the running/last batch
    state_changes,      \* the dict async_update_erd_values is building
    op,                 \* the call made by the last step and its arguments
    ret,                \* what that call returned (or the exception it raised)
    calls,              \* callbacks invoked by the last step, in order
    old_value,          \* the local old_value of the last async_update_erd_value
    applied,            \* for each cache key, the raw value most recently applied
    _erd_decoders,      \* GeAppliance._erd_decoders, the dict bound to ERD_DECODERS
    _erd_encoders,      \* GeAppliance._erd_encoders, the dict bound to ERD_ENCODERS
    registry,           \* the dict bound to erd.registry._registry
    appliances,         \* GeBaseClient._appliances : mac address -> GeAppliance object
    _pending_erds,      \* GeWebsocketClient._pending_erds : (mac address, code) -> value
    _event_handlers,    \* GeWebsocketClient._event_handlers : event -> list of callbacks
    tasks,              \* the coroutines scheduled with asyncio.ensure_future, not yet run
    events,             \* the calls of async_event made so far, in order
    sent,               \* the (mac address, code, value) async_set_erd_value was called with
    request             \* the call of the client made by the last step

vars == <<property_cache, update_functions, update_coroutines, available, pc,
          batch_used, batch_before, batch_trigger, state_changes, op, ret, calls,
          old_value, applied, _erd_decoders, _erd_encoders, registry,
          appliances, _pending_erds, _event_handlers, tasks, events, sent, request>>

----------------------------------------------------------------------------
(* Bounds of the model *)

MaxBatch == 2       \* largest number of entries in one update batch
MaxCallbacks == 1   \* largest number of callback registrations
MaxByteInput == 130 \* largest magnitude of the integers given to encode_signed_byte
MaxEvents == 3      \* largest number of events the client dispatches
MaxHandlers == 1    \* largest number of event handlers the application adds

----------------------------------------------------------------------------
(* Characters *)

LowerHex == <<"0","1","2","3","4","5","6","7","8","9","a","b","c","d","e","f">>
UpperHex == <<"0","1","2","3","4","5","6","7","8","9","A","B","C","D","E","F">>
UpperAlpha == <<"A","B","C","D","E","F","G","H","I","J","K","L","M",
                "N","O","P","Q","R","S","T","U","V","W","X","Y","Z">>
LowerAlpha == <<"a","b","c","d","e","f","g","h","i","j","k","l","m",
                "n","o","p","q","r","s","t","u","v","w","x","y","z">>

IsHexChar(c) == \E i \in 1..16 : LowerHex[i] = c \/ UpperHex[i] = c
HexVal(c) == (CHOOSE i \in 1..16 : LowerHex[i] = c \/ UpperHex[i] = c) - 1
IsDecChar(c) == \E i \in 1..10 : LowerHex[i] = c
HexCharOf(n) == LowerHex[n + 1]

\* str.lower(), one character
LowerChar(c) ==
    IF \E i \in 1..26 : UpperAlpha[i] = c
    THEN LowerAlpha[CHOOSE i \in 1..26 : UpperAlpha[i] = c]
    ELSE c

\* str.lower()
lower(s) == [i \in 1..Len(s) |-> LowerChar(s[i])]

\* str.upper(), one character, and str.upper()
UpperChar(c) ==
    IF \E i \in 1..26 : LowerAlpha[i] = c
    THEN UpperAlpha[CHOOSE i \in 1..26 : LowerAlpha[i] = c]
    ELSE c
upper(s) == [i \in 1..Len(s) |-> UpperChar(s[i])]

----------------------------------------------------------------------------
(* Python values *)

PyValue(k, i, s) == [kind |-> k, ints |-> i, strs |-> s]
None == PyValue("None", <<>>, <<>>)
PyBool(b) == PyValue("bool", <<IF b THEN 1 ELSE 0>>, <<>>)
PyInt(n) == PyValue("int", <<n>>, <<>>)
PyBytes(bs) == PyValue("bytes", bs, <<>>)
PyStr(s) == PyValue("str", <<>>, s)
PyTimedelta(minutes) == PyValue("timedelta", <<minutes>>, <<>>)
PyEnum(cls, member) == PyValue(cls, <<>>, <<member>>)
Raise(exc) == PyValue("raise", <<>>, <<exc>>)

IsRaise(v) == v.kind = "raise"
IsNone(v) == v = None

Bit(n, mask) == (n \div mask) % 2 = 1
BoolInt(b) == IF b THEN 1 ELSE 0

----------------------------------------------------------------------------
(* ERD codes.  An identifier is either a member of the ErdCode enum        *)
(* (isErd = TRUE, s = the member's name) or a Python str (isErd = FALSE).  *)

\* The members of the ErdCode enum that the model uses: name and wire value.
ErdCode == {
    [name |-> <<"A","P","P","L","I","A","N","C","E","_","T","Y","P","E">>,
     value |-> <<"0","x","0","0","0","8">>],
    [name |-> <<"S","A","B","B","A","T","H","_","M","O","D","E">>,
     value |-> <<"0","x","0","0","0","9">>],
    [name |-> <<"S","O","U","N","D","_","L","E","V","E","L">>,
     value |-> <<"0","x","0","0","0","a">>],
    [name |-> <<"U","S","E","R","_","I","N","T","E","R","F","A","C","E","_","L","O","C","K","E","D">>,
     value |-> <<"0","x","0","0","0","4">>],
    [name |-> <<"H","O","T","_","W","A","T","E","R","_","S","E","T","_","T","E","M","P">>,
     value |-> <<"0","x","1","0","1","1">>],
    [name |-> <<"I","C","E","_","M","A","K","E","R","_","B","U","C","K","E","T","_","S","T","A","T","U","S">>,
     value |-> <<"0","x","1","0","0","7">>],
    [name |-> <<"U","P","P","E","R","_","O","V","E","N","_","K","I","T","C","H","E","N","_","T","I","M","E","R">>,
     value |-> <<"0","x","5","1","0","5">>],
    [name |-> <<"D","O","O","R","_","S","T","A","T","U","S">>,
     value |-> <<"0","x","1","0","1","6">>] }

Member(name) == [isErd |-> TRUE, s |-> name]
Str(s) == [isErd |-> FALSE, s |-> s]

APPLIANCE_TYPE == Member(<<"A","P","P","L","I","A","N","C","E","_","T","Y","P","E">>)
SABBATH_MODE == Member(<<"S","A","B","B","A","T","H","_","M","O","D","E">>)
SOUND_LEVEL == Member(<<"S","O","U","N","D","_","L","E","V","E","L">>)
USER_INTERFACE_LOCKED ==
    Member(<<"U","S","E","R","_","I","N","T","E","R","F","A","C","E","_","L","O","C","K","E","D">>)
HOT_WATER_SET_TEMP ==
    Member(<<"H","O","T","_","W","A","T","E","R","_","S","E","T","_","T","E","M","P">>)
ICE_MAKER_BUCKET_STATUS ==
    Member(<<"I","C","E","_","M","A","K","E","R","_","B","U","C","K","E","T","_","S","T","A","T","U","S">>)
UPPER_OVEN_KITCHEN_TIMER ==
    Member(<<"U","P","P","E","R","_","O","V","E","N","_","K","I","T","C","H","E","N","_","T","I","M","E","R">>)

DOOR_STATUS == Member(<<"D","O","O","R","_","S","T","A","T","U","S">>)

\* ErdCode[name] and ErdCode(value): the lookups of a Python enum
HasName(s) == \E e \in ErdCode : e.name = s
HasValue(s) == \E e \in ErdCode : e.value = s
ByValue(s) == Member((CHOOSE e \in ErdCode : e.value = s).name)
WireValue(code) == (CHOOSE e \in ErdCode : e.name = code.s).value

\* a faulty translate_erd_code: the wire values are compared without .lower()
translate_erd_code_case_sensitive(erd_code) ==
    IF erd_code.isErd THEN erd_code
    ELSE IF HasName(erd_code.s) THEN Member(erd_code.s)
    ELSE IF HasValue(erd_code.s) THEN ByValue(erd_code.s)
    ELSE erd_code

\* a faulty translate_erd_code: an unresolved string comes back in lower case
translate_erd_code_lowered(erd_code) ==
    IF erd_code.isErd THEN erd_code
    ELSE IF HasName(erd_code.s) THEN Member(erd_code.s)
    ELSE IF HasValue(lower(erd_code.s)) THEN ByValue(lower(erd_code.s))
    ELSE Str(lower(erd_code.s))

\* erd_utils.translate_erd_code
translate_erd_code(erd_code) ==
    IF erd_code.isErd THEN erd_code
    ELSE IF HasName(erd_code.s) THEN Member(erd_code.s)
    ELSE IF HasValue(lower(erd_code.s)) THEN ByValue(lower(erd_code.s))
    ELSE erd_code

\* ErdSerializer.translate_erd_code
ErdSerializer_translate_erd_code(erd_code) ==
    IF erd_code.isErd THEN erd_code
    ELSE IF HasName(erd_code.s) THEN Member(erd_code.s)
    ELSE IF HasValue(lower(erd_code.s)) THEN ByValue(lower(erd_code.s))
    ELSE erd_code

----------------------------------------------------------------------------
(* Python built-ins on strings *)

AllHex(s) == \A i \in 1..Len(s) : IsHexChar(s[i])
AllDec(s) == \A i \in 1..Len(s) : IsDecChar(s[i])

RECURSIVE HexToNat(_)
HexToNat(s) ==
    IF s = <<>> THEN 0
    ELSE 16 * HexToNat(SubSeq(s, 1, Len(s) - 1)) + HexVal(s[Len(s)])

RECURSIVE DecToNat(_)
DecToNat(s) ==
    IF s = <<>> THEN 0
    ELSE 10 * DecToNat(SubSeq(s, 1, Len(s) - 1)) + HexVal(s[Len(s)])

\* int(value, 16) on strings of hex digits and other characters
int16(value) ==
    IF Len(value) > 0 /\ AllHex(value) THEN PyInt(HexToNat(value))
    ELSE Raise("ValueError")

\* int(value): base 10
int10(value) ==
    IF Len(value) > 0 /\ AllDec(value) THEN PyInt(DecToNat(value))
    ELSE Raise("ValueError")

\* bytes.fromhex(value)
fromhex(value) ==
    IF Len(value) % 2 = 0 /\ AllHex(value)
    THEN PyBytes([i \in 1..(Len(value) \div 2) |->
                    16 * HexVal(value[2 * i - 1]) + HexVal(value[2 * i])])
    ELSE Raise("ValueError")

\* bool(value)
Truthy(v) ==
    CASE v.kind = "None" -> FALSE
      [] v.kind \in {"bool", "int", "timedelta"} -> v.ints[1] # 0
      [] v.kind \in {"bytes"} -> Len(v.ints) > 0
      [] v.kind \in {"str"} -> Len(v.strs) > 0
      [] OTHER -> TRUE

\* n.to_bytes(length, 'big').hex()
RECURSIVE ToHex(_, _)
ToHex(n, digits) ==
    IF digits = 0 THEN <<>>
    ELSE Append(ToHex(n \div 16, digits - 1), HexCharOf(n % 16))

to_bytes_hex(n, length) ==
    IF n < 0 \/ n >= 256 ^ length THEN Raise("OverflowError")
    ELSE PyStr(ToHex(n, 2 * length))

----------------------------------------------------------------------------
(* Enums of erd_constants *)

ErdApplianceType == {
    [member |-> "UNKNOWN", value |-> <<"F","F">>],
    [member |-> "WATER_HEATER", value |-> <<"0","0">>],
    [member |-> "DRYER", value |-> <<"0","1">>],
    [member |-> "WASHER", value |-> <<"0","2">>],
    [member |-> "FRIDGE", value |-> <<"0","3">>],
    [member |-> "MICROWAVE", value |-> <<"0","4">>],
    [member |-> "ADVANTIUM", value |-> <<"0","5">>],
    [member |-> "DISH_WASHER", value |-> <<"0","6">>],
    [member |-> "OVEN", value |-> <<"0","7">>],
    [member |-> "ELECTRIC_RANGE", value |-> <<"0","8">>],
    [member |-> "GAS_RANGE", value |-> <<"0","9">>],
    [member |-> "AIR_CONDITIONER", value |-> <<"0","a">>],
    [member |-> "ELECTRIC_COOKTOP", value |-> <<"0","b">>],
    [member |-> "COOKTOP", value |-> <<"1","1">>],
    [member |-> "PIZZA_OVEN", value |-> <<"0","c">>],
    [member |-> "GAS_COOKTOP", value |-> <<"0","d">>],
    [member |-> "SPLIT_AIR_CONDITIONER", value |-> <<"0","e">>],
    [member |-> "HOOD", value |-> <<"0","f">>],
    [member |-> "POE_WATER_FILTER", value |-> <<"1","0">>],
    [member |-> "WATER_SOFTENER", value |-> <<"1","5">>],
    [member |-> "PORTABLE_AIR_CONDITIONER", value |-> <<"1","6">>],
    [member |-> "COMBINATION_WASHER_DRYER", value |-> <<"1","7">>],
    [member |-> "ZONELINE", value |-> <<"1","4">>],
    [member |-> "DELEVERY_BOX", value |-> <<"1","2">>],
    [member |-> "CAFE_COFFEE_MAKER", value |-> <<"1","A">>] }

\* ErdOvenCookMode: every member with its value
ErdOvenCookMode == {
    [member |-> "BAKED_GOODS", value |-> 60],
    [member |-> "BAKETIMEDSHUTOFF_DELAYSTART", value |-> 7],
    [member |-> "BAKETIMED_TWOTEMP", value |-> 5],
    [member |-> "BAKETIMED_TWOTEMP_DELAYSTART", value |-> 9],
    [member |-> "BAKETIMED_WARM", value |-> 4],
    [member |-> "BAKETIMED_WARM_DELAYSTART", value |-> 8],
    [member |-> "BAKE_DELAYSTART", value |-> 3],
    [member |-> "BAKE_NOOPTION", value |-> 1],
    [member |-> "BAKE_PROBE", value |-> 2],
    [member |-> "BAKE_PROBE_DELAYSTART", value |-> 6],
    [member |-> "BAKE_SABBATH", value |-> 10],
    [member |-> "BROIL_HIGH", value |-> 12],
    [member |-> "BROIL_LOW", value |-> 11],
    [member |-> "CONVBAKETIMEDSHUTOFF_DELAYSTART", value |-> 24],
    [member |-> "CONVBAKETIMED_TWOTEMP", value |-> 22],
    [member |-> "CONVBAKETIMED_TWOTEMP_DELAYSTART", value |-> 26],
    [member |-> "CONVBAKETIMED_WARM", value |-> 21],
    [member |-> "CONVBAKETIMED_WARM_DELAYSTART", value |-> 25],
    [member |-> "CONVBAKE_DELAYSTART", value |-> 20],
    [member |-> "CONVBAKE_NOOPTION", value |-> 18],
    [member |-> "CONVBAKE_PROBE", value |-> 19],
    [member |-> "CONVBAKE_PROBE_DELAYSTART", value |-> 23],
    [member |-> "CONVBROILCRISP_NOOPTION", value |-> 47],
    [member |-> "CONVBROILCRISP_PROBE", value |-> 48],
    [member |-> "CONVBROIL_HIGH_NOOPTION", value |-> 46],
    [member |-> "CONVBROIL_LOW_NOOPTION", value |-> 45],
    [member |-> "CONVMULTIBAKETIMEDSHUTOFF_DELAYSTART", value |-> 33],
    [member |-> "CONVMULTIBAKETIMED_TWOTEMP", value |-> 31],
    [member |-> "CONVMULTIBAKETIMED_TWOTEMP_DELAYSTART", value |-> 35],
    [member |-> "CONVMULTIBAKETIMED_WARM", value |-> 30],
    [member |-> "CONVMULTIBAKETIMED_WARM_DELAYSTART", value |-> 34],
    [member |-> "CONVMULTIBAKE_DELAYSTART", value |-> 29],
    [member |-> "CONVMULTIBAKE_NOOPTION", value |-> 27],
    [member |-> "CONVMULTIBAKE_PROBE", value |-> 28],
    [member |-> "CONVMULTIBAKE_PROBE_DELAYSTART", value |-> 32],
    [member |-> "CONVROASTTIMEDSHUTOFF_DELAYSTART", value |-> 42],
    [member |-> "CONVROASTTIMED_TWOTEMP", value |-> 40],
    [member |-> "CONVROASTTIMED_TWOTEMP_DELAYSTART", value |-> 44],
    [member |-> "CONVROASTTIMED_WARM", value |-> 39],
    [member |-> "CONVROASTTIMED_WARM_DELAYSTART", value |-> 43],
    [member |-> "CONVROAST_DELAYSTART", value |-> 38],
    [member |-> "CONVROAST_NOOPTION", value |-> 36],
    [member |-> "CONVROAST_PROBE", value |-> 37],
    [member |-> "CONVROAST_PROBE_DELAYSTART", value |-> 41],
    [member |-> "CUSTOMSELFCLEAN", value |-> 49],
    [member |-> "CUSTOMSELFCLEAN_DELAYSTART", value |-> 50],
    [member |-> "DUALBROIL_HIGH_NOOPTION", value |-> 54],
    [member |-> "DUALBROIL_LOW_NOOPTION", value |-> 53],
    [member |-> "FROZEN_PIZZA", value |-> 58],
    [member |-> "FROZEN_PIZZA_MULTI", value |-> 59],
    [member |-> "FROZEN_SNACKS", value |-> 56],
    [member |-> "FROZEN_SNACKS_MULTI", value |-> 567],
    [member |-> "NOMODE", value |-> 0],
    [member |-> "PROOF_DELAYSTART", value |-> 14],
    [member |-> "PROOF_NOOPTION", value |-> 13],
    [member |-> "STEAMCLEAN", value |-> 51],
    [member |-> "STEAMCLEAN_DELAYSTART", value |-> 52],
    [member |-> "WARM_DELAYSTART", value |-> 17],
    [member |-> "WARM_NOOPTION", value |-> 15],
    [member |-> "WARM_PROBE", value |-> 16] }

\* erd_types.OvenCookMode, a named tuple: the oven state and the five flags
OvenCookMode(oven_state, delayed, timed, probe, warm, sabbath) ==
    PyValue("OvenCookMode",
            <<BoolInt(delayed), BoolInt(timed), BoolInt(probe), BoolInt(warm), BoolInt(sabbath)>>,
            <<oven_state>>)

\* erd_types.OvenCookSetting, a named tuple: the cook mode, the temperature and
\* the raw bytes (None or bytes)
OvenCookSetting(cook_mode, temperature, raw_bytes) ==
    PyValue("OvenCookSetting",
            cook_mode.ints \o <<temperature>> \o raw_bytes.ints,
            cook_mode.strs \o <<raw_bytes.kind>>)

\* the fields cook_mode and temperature of an OvenCookSetting
cook_mode_of(cook_setting) ==
    PyValue("OvenCookMode", SubSeq(cook_setting.ints, 1, 5), <<cook_setting.strs[1]>>)
temperature_of(cook_setting) == cook_setting.ints[6]

\* OVEN_COOK_MODE_MAP, by member name
OVEN_COOK_MODE_MAP ==
    ("BAKED_GOODS" :> OvenCookMode("OVEN_STATE_BAKED_GOODS", FALSE, FALSE, FALSE, FALSE, FALSE)) @@
    ("BAKETIMEDSHUTOFF_DELAYSTART" :> OvenCookMode("BAKE", TRUE, TRUE, FALSE, FALSE, FALSE)) @@
    ("BAKETIMED_TWOTEMP" :> OvenCookMode("BAKE_TWO_TEMP", FALSE, TRUE, FALSE, FALSE, FALSE)) @@
    ("BAKETIMED_TWOTEMP_DELAYSTART" :> OvenCookMode("BAKE_TWO_TEMP", TRUE, TRUE, FALSE, FALSE, FALSE)) @@
    ("BAKETIMED_WARM" :> OvenCookMode("WARM", FALSE, TRUE, FALSE, FALSE, FALSE)) @@
    ("BAKETIMED_WARM_DELAYSTART" :> OvenCookMode("WARM", TRUE, TRUE, FALSE, FALSE, FALSE)) @@
    ("BAKE_DELAYSTART" :> OvenCookMode("BAKE", TRUE, FALSE, FALSE, FALSE, FALSE)) @@
    ("BAKE_NOOPTION" :> OvenCookMode("BAKE", FALSE, FALSE, FALSE, FALSE, FALSE)) @@
    ("BAKE_PROBE" :> OvenCookMode("BAKE", FALSE, FALSE, TRUE, FALSE, FALSE)) @@
    ("BAKE_PROBE_DELAYSTART" :> OvenCookMode("BAKE", TRUE, FALSE, TRUE, FALSE, FALSE)) @@
    ("BAKE_SABBATH" :> OvenCookMode("BAKE", FALSE, FALSE, FALSE, FALSE, TRUE)) @@
    ("BROIL_HIGH" :> OvenCookMode("BROIL_HIGH", FALSE, FALSE, FALSE, FALSE, FALSE)) @@
    ("BROIL_LOW" :> OvenCookMode("BROIL_LOW", FALSE, FALSE, FALSE, FALSE, FALSE)) @@
    ("CONVBAKETIMEDSHUTOFF_DELAYSTART" :> OvenCookMode("CONV_BAKE", TRUE, TRUE, FALSE, FALSE, FALSE)) @@
    ("CONVBAKETIMED_TWOTEMP" :> OvenCookMode("CONV_BAKE_TWO_TEMP", FALSE, TRUE, FALSE, FALSE, FALSE)) @@
    ("CONVBAKETIMED_TWOTEMP_DELAYSTART" :> OvenCookMode("CONV_BAKE_TWO_TEMP", TRUE, TRUE, FALSE, FALSE, FALSE)) @@
    ("CONVBAKETIMED_WARM" :> OvenCookMode("CONV_BAKE", FALSE, TRUE, FALSE, TRUE, FALSE)) @@
    ("CONVBAKETIMED_WARM_DELAYSTART" :> OvenCookMode("CONV_BAKE", TRUE, TRUE, FALSE, TRUE, FALSE)) @@
    ("CONVBAKE_DELAYSTART" :> OvenCookMode("CONV_BAKE", TRUE, FALSE, FALSE, FALSE, FALSE)) @@
    ("CONVBAKE_NOOPTION" :> OvenCookMode("CONV_BAKE", FALSE, FALSE, FALSE, FALSE, FALSE)) @@
    ("CONVBAKE_PROBE" :> OvenCookMode("CONV_BAKE", FALSE, FALSE, TRUE, FALSE, FALSE)) @@
    ("CONVBAKE_PROBE_DELAYSTART" :> OvenCookMode("CONV_BAKE", TRUE, FALSE, TRUE, FALSE, FALSE)) @@
    ("CONVBROILCRISP_NOOPTION" :> OvenCookMode("CONV_BROIL_CRISP", FALSE, FALSE, FALSE, FALSE, FALSE)) @@
    ("CONVBROILCRISP_PROBE" :> OvenCookMode("CONV_BROIL_CRISP", FALSE, FALSE, TRUE, FALSE, FALSE)) @@
    ("CONVBROIL_HIGH_NOOPTION" :> OvenCookMode("CONV_BROIL_HIGH", FALSE, FALSE, FALSE, FALSE, FALSE)) @@
    ("CONVBROIL_LOW_NOOPTION" :> OvenCookMode("CONV_BROIL_LOW", FALSE, FALSE, FALSE, FALSE, FALSE)) @@
    ("CONVMULTIBAKETIMEDSHUTOFF_DELAYSTART" :> OvenCookMode("CONV_MUTLI_BAKE", TRUE, TRUE, FALSE, FALSE, FALSE)) @@
    ("CONVMULTIBAKETIMED_TWOTEMP" :> OvenCookMode("CONV_MULTI_TWO_BAKE", FALSE, TRUE, FALSE, FALSE, FALSE)) @@
    ("CONVMULTIBAKETIMED_TWOTEMP_DELAYSTART" :> OvenCookMode("CONV_MULTI_TWO_BAKE", TRUE, TRUE, FALSE, FALSE, FALSE)) @@
    ("CONVMULTIBAKETIMED_WARM" :> OvenCookMode("CONV_MUTLI_BAKE", FALSE, TRUE, FALSE, TRUE, FALSE)) @@
    ("CONVMULTIBAKETIMED_WARM_DELAYSTART" :> OvenCookMode("CONV_MUTLI_BAKE", TRUE, TRUE, FALSE, TRUE, FALSE)) @@
    ("CONVMULTIBAKE_DELAYSTART" :> OvenCookMode("CONV_MUTLI_BAKE", TRUE, FALSE, FALSE, FALSE, FALSE)) @@
    ("CONVMULTIBAKE_NOOPTION" :> OvenCookMode("CONV_MUTLI_BAKE", FALSE, FALSE, FALSE, FALSE, FALSE)) @@
    ("CONVMULTIBAKE_PROBE" :> OvenCookMode("CONV_MUTLI_BAKE", FALSE, FALSE, TRUE, FALSE, FALSE)) @@
    ("CONVMULTIBAKE_PROBE_DELAYSTART" :> OvenCookMode("CONV_MUTLI_BAKE", TRUE, FALSE, TRUE, FALSE, FALSE)) @@
    ("CONVROASTTIMEDSHUTOFF_DELAYSTART" :> OvenCookMode("CONV_ROAST", TRUE, TRUE, FALSE, FALSE, FALSE)) @@
    ("CONVROASTTIMED_TWOTEMP" :> OvenCookMode("CONV_ROAST2", FALSE, TRUE, FALSE, FALSE, FALSE)) @@
    ("CONVROASTTIMED_TWOTEMP_DELAYSTART" :> OvenCookMode("CONV_ROAST2", TRUE, TRUE, FALSE, FALSE, FALSE)) @@
    ("CONVROASTTIMED_WARM" :> OvenCookMode("CONV_ROAST", FALSE, TRUE, FALSE, TRUE, FALSE)) @@
    ("CONVROASTTIMED_WARM_DELAYSTART" :> OvenCookMode("CONV_ROAST", TRUE, TRUE, FALSE, TRUE, FALSE)) @@
    ("CONVROAST_DELAYSTART" :> OvenCookMode("CONV_ROAST", TRUE, FALSE, FALSE, FALSE, FALSE)) @@
    ("CONVROAST_NOOPTION" :> OvenCookMode("CONV_ROAST", FALSE, FALSE, FALSE, FALSE, FALSE)) @@
    ("CONVROAST_PROBE" :> OvenCookMode("CONV_ROAST", FALSE, FALSE, TRUE, FALSE, FALSE)) @@
    ("CONVROAST_PROBE_DELAYSTART" :> OvenCookMode("CONV_ROAST", TRUE, FALSE, TRUE, FALSE, FALSE)) @@
    ("CUSTOMSELFCLEAN" :> OvenCookMode("CUSTOM_CLEAN_STAGE2", FALSE, FALSE, FALSE, FALSE, FALSE)) @@
    ("CUSTOMSELFCLEAN_DELAYSTART" :> OvenCookMode("CUSTOM_CLEAN_STAGE2", TRUE, FALSE, FALSE, FALSE, FALSE)) @@
    ("DUALBROIL_HIGH_NOOPTION" :> OvenCookMode("OVEN_STATE_DUAL_BROIL_HIGH", FALSE, FALSE, FALSE, FALSE, FALSE)) @@
    ("DUALBROIL_LOW_NOOPTION" :> OvenCookMode("OVEN_STATE_DUAL_BROIL_LOW", FALSE, FALSE, FALSE, FALSE, FALSE)) @@
    ("FROZEN_PIZZA" :> OvenCookMode("OVEN_STATE_FROZEN_PIZZA", FALSE, FALSE, FALSE, FALSE, FALSE)) @@
    ("FROZEN_PIZZA_MULTI" :> OvenCookMode("OVEN_STATE_FROZEN_PIZZA_MULTI", FALSE, FALSE, FALSE, FALSE, FALSE)) @@
    ("FROZEN_SNACKS" :> OvenCookMode("OVEN_STATE_FROZEN_SNACKS", FALSE, FALSE, FALSE, FALSE, FALSE)) @@
    ("FROZEN_SNACKS_MULTI" :> OvenCookMode("OVEN_STATE_FROZEN_SNACKS_MULTI", FALSE, FALSE, FALSE, FALSE, FALSE)) @@
    ("NOMODE" :> OvenCookMode("NO_MODE", FALSE, FALSE, FALSE, FALSE, FALSE)) @@
    ("PROOF_DELAYSTART" :> OvenCookMode("PROOF", TRUE, FALSE, FALSE, FALSE, FALSE)) @@
    ("PROOF_NOOPTION" :> OvenCookMode("PROOF", FALSE, FALSE, FALSE, FALSE, FALSE)) @@
    ("STEAMCLEAN" :> OvenCookMode("STEAM_CLEAN_STAGE2", FALSE, FALSE, FALSE, FALSE, FALSE)) @@
    ("STEAMCLEAN_DELAYSTART" :> OvenCookMode("STEAM_CLEAN_STAGE2", TRUE, FALSE, FALSE, FALSE, FALSE)) @@
    ("WARM_DELAYSTART" :> OvenCookMode("WARM", TRUE, FALSE, FALSE, FALSE, FALSE)) @@
    ("WARM_NOOPTION" :> OvenCookMode("WARM", FALSE, FALSE, FALSE, FALSE, FALSE)) @@
    ("WARM_PROBE" :> OvenCookMode("WARM", FALSE, FALSE, TRUE, FALSE, FALSE))

ErdSoundLevel == {
    [member |-> "OFF", value |-> 0],
    [member |-> "LOW", value |-> 1],
    [member |-> "STANDARD", value |-> 2],
    [member |-> "HIGH", value |-> 3] }

ErdMeasurementUnits == {
    [member |-> "IMPERIAL", value |-> 0],
    [member |-> "METRIC", value |-> 1] }

ErdFilterStatus == {
    [member |-> "GOOD", value |-> <<"0","0">>],
    [member |-> "REPLACE", value |-> <<"0","1">>],
    [member |-> "EXPIRED", value |-> <<"0","2">>],
    [member |-> "UNFILTERED", value |-> <<"0","3">>],
    [member |-> "LEAK_DETECTED", value |-> <<"0","4">>],
    [member |-> "NA", value |-> <<"F","F">>] }

ErdEndTone == {
    [member |-> "BEEP", value |-> <<"0","0">>],
    [member |-> "REPEATED_BEEP", value |-> <<"0","1">>],
    [member |-> "NA", value |-> <<"F","F">>] }

ErdClockFormat == {
    [member |-> "TWELVE_HOUR", value |-> <<"0","0">>],
    [member |-> "TWENTY_FOUR_HOUR", value |-> <<"0","1">>],
    [member |-> "NO_DISPLAY", value |-> <<"0","2">>] }

ErdDoorStatus == {
    [member |-> "CLOSED", value |-> <<"0","0">>],
    [member |-> "OPEN", value |-> <<"0","1">>],
    [member |-> "NA", value |-> <<"F","F">>] }

\* ErdOvenState: the members whose value is a number and those whose value is a
\* string; ErdOvenState(n) for a number n looks among the first
ErdOvenState == [
    numbered |-> {
        [member |-> "BAKE", value |-> 5],
        [member |-> "BAKE_PREHEAT", value |-> 1],
        [member |-> "BAKE_TWO_TEMP", value |-> 6],
        [member |-> "BROIL_HIGH", value |-> 14],
        [member |-> "BROIL_LOW", value |-> 13],
        [member |-> "CLEAN_COOL_DOWN", value |-> 23],
        [member |-> "CLEAN_STAGE1", value |-> 21],
        [member |-> "CLEAN_STAGE2", value |-> 22],
        [member |-> "CONV_BAKE", value |-> 7],
        [member |-> "CONV_BAKE_PREHEAT", value |-> 2],
        [member |-> "CONV_BAKE_TWO_TEMP", value |-> 8],
        [member |-> "CONV_BROIL_CRISP", value |-> 17],
        [member |-> "CONV_BROIL_HIGH", value |-> 15],
        [member |-> "CONV_BROIL_LOW", value |-> 16],
        [member |-> "CONV_MULTI_BAKE_PREHEAT", value |-> 3],
        [member |-> "CONV_MULTI_TWO_BAKE", value |-> 10],
        [member |-> "CONV_MUTLI_BAKE", value |-> 9],
        [member |-> "CONV_ROAST", value |-> 11],
        [member |-> "CONV_ROAST2", value |-> 12],
        [member |-> "CONV_ROAST_BAKE_PREHEAT", value |-> 4],
        [member |-> "CUSTOM_CLEAN_STAGE2", value |-> 24],
        [member |-> "DELAY", value |-> 27],
        [member |-> "NO_MODE", value |-> 0],
        [member |-> "PROOF", value |-> 19],
        [member |-> "SABBATH", value |-> 20],
        [member |-> "STEAM_CLEAN_STAGE2", value |-> 25],
        [member |-> "STEAM_COOL_DOWN", value |-> 26],
        [member |-> "WARM", value |-> 18] },
    named |-> {
        [member |-> "OVEN_STATE_BAKE", value |-> "oven_bake"],
        [member |-> "OVEN_STATE_BAKED_GOODS", value |-> "oven_state_baked_goods"],
        [member |-> "OVEN_STATE_BROIL", value |-> "oven_state_broil"],
        [member |-> "OVEN_STATE_CONV_BAKE", value |-> "oven_state_conv_bake"],
        [member |-> "OVEN_STATE_CONV_BAKE_MULTI", value |-> "oven_state_conv_bake_multi"],
        [member |-> "OVEN_STATE_CONV_BROIL", value |-> "oven_state_conv_broil"],
        [member |-> "OVEN_STATE_CONV_ROAST", value |-> "oven_state_conv_roast"],
        [member |-> "OVEN_STATE_DELAY_START", value |-> "oven_state_delay_start"],
        [member |-> "OVEN_STATE_DUAL_BROIL_HIGH", value |-> "oven_state_dual_broil_high"],
        [member |-> "OVEN_STATE_DUAL_BROIL_LOW", value |-> "oven_state_dual_broil_low"],
        [member |-> "OVEN_STATE_FROZEN_PIZZA", value |-> "oven_state_frozen_pizza"],
        [member |-> "OVEN_STATE_FROZEN_PIZZA_MULTI", value |-> "oven_state_frozen_pizza_multi"],
        [member |-> "OVEN_STATE_FROZEN_SNACKS", value |-> "oven_state_frozen_snacks"],
        [member |-> "OVEN_STATE_FROZEN_SNACKS_MULTI", value |-> "oven_state_frozen_snacks_multi"],
        [member |-> "OVEN_STATE_PROOF", value |-> "oven_state_proof"],
        [member |-> "OVEN_STATE_SELF_CLEAN", value |-> "oven_state_self_clean"],
        [member |-> "OVEN_STATE_SPECIAL_X", value |-> "oven_state_speical_x"],
        [member |-> "OVEN_STATE_STEAM_START", value |-> "oven_state_steam_start"],
        [member |-> "OVEN_STATE_WARM", value |-> "oven_state_warm"],
        [member |-> "STATUS_DASH", value |-> "status_dash"] } ]

\* ErdAvailableCookMode, in the order of its definition: the value of each
\* member is AvailableCookMode(byte, mask, cook_mode)
ErdAvailableCookMode == <<
    [member |-> "OVEN_BAKE", byte |-> 9, mask |-> 2, cook_mode |-> "BAKE_NOOPTION"],
    [member |-> "OVEN_CONVECTION_BAKE", byte |-> 7, mask |-> 4,
     cook_mode |-> "CONVBAKE_NOOPTION"],
    [member |-> "OVEN_CONVECTION_MULTI_BAKE", byte |-> 6, mask |-> 8,
     cook_mode |-> "CONVMULTIBAKE_NOOPTION"],
    [member |-> "OVEN_CONVECTION_ROAST", byte |-> 5, mask |-> 16,
     cook_mode |-> "CONVROAST_NOOPTION"],
    [member |-> "OVEN_FROZEN_SNACKS", byte |-> 2, mask |-> 1, cook_mode |-> "FROZEN_SNACKS"],
    [member |-> "OVEN_FROZEN_SNACKS_MULTI", byte |-> 2, mask |-> 2,
     cook_mode |-> "FROZEN_SNACKS_MULTI"],
    [member |-> "OVEN_FROZEN_PIZZA", byte |-> 2, mask |-> 4, cook_mode |-> "FROZEN_PIZZA"],
    [member |-> "OVEN_FROZEN_PIZZA_MULTI", byte |-> 2, mask |-> 8,
     cook_mode |-> "FROZEN_PIZZA_MULTI"],
    [member |-> "OVEN_BAKED_GOODS", byte |-> 2, mask |-> 16, cook_mode |-> "BAKED_GOODS"] >>

\* Enum(value): the member of that value, ValueError when there is none
EnumCall(enum, cls, value) ==
    IF \E e \in enum : e.value = value
    THEN PyEnum(cls, (CHOOSE e \in enum : e.value = value).member)
    ELSE Raise("ValueError")

\* value[start:stop] for 0 <= start <= stop
slice(value, start, stop) ==
    SubSeq(value, start + 1, IF stop < Len(value) THEN stop ELSE Len(value))

----------------------------------------------------------------------------
(* erd_utils: the decoders and encoders of the legacy tables *)

decode_erd_int(value) == int16(value)

decode_erd_bytes(value) == fromhex(value)

\* a faulty _encode_erd_int: a number that does not fit is cut to two bytes
_encode_erd_int_truncating(value) ==
    IF value.kind \in {"int", "bool"} THEN to_bytes_hex(value.ints[1] % 65536, 2)
    ELSE Raise("TypeError")

_encode_erd_int(value) ==
    IF value.kind \in {"int", "bool"} THEN to_bytes_hex(value.ints[1], 2)
    ELSE Raise("TypeError")

\* a faulty decode_signed_byte: 128 is taken for a negative number
decode_signed_byte_from_128(value) ==
    LET val == int16(value)
    IN  IF IsRaise(val) THEN val
        ELSE IF val.ints[1] >= 128 THEN PyInt(val.ints[1] - 256)
        ELSE val

decode_signed_byte(value) ==
    LET val == int16(value)
    IN  IF IsRaise(val) THEN val
        ELSE IF val.ints[1] > 128 THEN PyInt(val.ints[1] - 256)
        ELSE val

encode_signed_byte(value) ==
    IF value.kind \notin {"int", "bool"} THEN Raise("TypeError")
    ELSE to_bytes_hex(IF value.ints[1] < 0 THEN value.ints[1] + 256 ELSE value.ints[1], 1)

_decode_erd_bool(value) ==
    IF value = <<"F","F">> THEN None
    ELSE LET n == int10(value)
         IN  IF IsRaise(n) THEN n ELSE PyBool(n.ints[1] # 0)

_encode_erd_bool(value) ==
    IF IsNone(value) THEN PyStr(<<"F","F">>)
    ELSE IF Truthy(value) THEN PyStr(<<"0","1">>) ELSE PyStr(<<"0","0">>)

_decode_appliance_type(value) ==
    IF \E e \in ErdApplianceType : e.value = value
    THEN PyEnum("ErdApplianceType",
                (CHOOSE e \in ErdApplianceType : e.value = value).member)
    ELSE PyEnum("ErdApplianceType", "UNKNOWN")

_decode_timespan(value) ==
    LET minutes == decode_erd_int(value)
    IN  IF IsRaise(minutes) THEN minutes
        ELSE IF minutes.ints[1] = 65535 THEN None
        ELSE PyTimedelta(minutes.ints[1])

\* timedelta.seconds: the seconds within the day, the days are a separate field
timedelta_seconds(value) == (value.ints[1] % 1440) * 60

_encode_timespan(value) ==
    IF IsNone(value) THEN _encode_erd_int(PyInt(65535))
    ELSE IF value.kind # "timedelta" THEN Raise("AttributeError")
    ELSE _encode_erd_int(PyInt(timedelta_seconds(value) \div 60))

_decode_ice_bucket_status(value) ==
    LET n == IF value = <<>> THEN PyInt(0) ELSE decode_erd_int(value)
    IN  IF IsRaise(n) THEN n
        ELSE LET is_present_ff == Bit(n.ints[1], 1)
                 is_present_fz == Bit(n.ints[1], 2)
                 state_full_ff == IF ~is_present_ff THEN "NA"
                                  ELSE IF Bit(n.ints[1], 4) THEN "FULL" ELSE "NOT_FULL"
                 state_full_fz == IF ~is_present_fz THEN "NA"
                                  ELSE IF Bit(n.ints[1], 8) THEN "FULL" ELSE "NOT_FULL"
                 total_status ==
                     IF ~(is_present_ff \/ is_present_ff) THEN "NA"
                     ELSE IF state_full_ff = "NOT_FULL" \/ state_full_fz = "NOT_FULL"
                          THEN "NOT_FULL"
                     ELSE "FULL"
             IN  PyValue("FridgeIceBucketStatus",
                         <<BoolInt(is_present_ff), BoolInt(is_present_fz)>>,
                         <<state_full_ff, state_full_fz, total_status>>)

_decode_sound_level(value) ==
    LET sound_level == decode_erd_int(value)
    IN  IF IsRaise(sound_level) THEN sound_level
        ELSE IF \E e \in ErdSoundLevel : e.value = sound_level.ints[1]
        THEN PyEnum("ErdSoundLevel",
                    (CHOOSE e \in ErdSoundLevel : e.value = sound_level.ints[1]).member)
        ELSE Raise("ValueError")

_encode_sound_level(value) ==
    IF value.kind # "ErdSoundLevel" THEN Raise("AttributeError")
    ELSE _encode_erd_int(
            PyInt((CHOOSE e \in ErdSoundLevel : e.member = value.strs[1]).value))

\* int.from_bytes(bs, 'big')
RECURSIVE from_bytes(_)
from_bytes(bs) ==
    IF bs = <<>> THEN 0
    ELSE 256 * from_bytes(SubSeq(bs, 1, Len(bs) - 1)) + bs[Len(bs)]

_decode_oven_cook_mode(value) ==
    LET byte_string == decode_erd_bytes(value)
    IN  IF IsRaise(byte_string) THEN byte_string
        ELSE IF byte_string.ints = <<>> THEN Raise("IndexError")
        ELSE LET cook_mode_code == byte_string.ints[1]
                 temperature == from_bytes(SubSeq(byte_string.ints, 2,
                                    IF Len(byte_string.ints) < 3 THEN Len(byte_string.ints) ELSE 3))
             IN  IF ~\E e \in ErdOvenCookMode : e.value = cook_mode_code
                 THEN Raise("ValueError")
                 ELSE LET cook_mode == (CHOOSE e \in ErdOvenCookMode : e.value = cook_mode_code).member
                      IN  IF cook_mode \notin DOMAIN OVEN_COOK_MODE_MAP THEN Raise("KeyError")
                          ELSE OvenCookSetting(OVEN_COOK_MODE_MAP[cook_mode], temperature, byte_string)

_encode_oven_cook_mode(cook_setting) ==
    IF cook_setting.kind # "OvenCookSetting" THEN Raise("AttributeError")
    ELSE LET cook_mode == cook_mode_of(cook_setting)
         IN  IF ~\E m \in DOMAIN OVEN_COOK_MODE_MAP : OVEN_COOK_MODE_MAP[m] = cook_mode
             THEN Raise("KeyError")
             ELSE LET member == CHOOSE m \in DOMAIN OVEN_COOK_MODE_MAP :
                                    OVEN_COOK_MODE_MAP[m] = cook_mode
                      cook_mode_code == (CHOOSE e \in ErdOvenCookMode : e.member = member).value
                      cook_mode_hex == to_bytes_hex(cook_mode_code, 1)
                      temperature_hex == to_bytes_hex(temperature_of(cook_setting), 2)
                  IN  IF IsRaise(cook_mode_hex) THEN cook_mode_hex
                      ELSE IF IsRaise(temperature_hex) THEN temperature_hex
                      ELSE PyStr(cook_mode_hex.strs \o temperature_hex.strs
                                 \o [i \in 1..20 |-> "0"])

_decode_measurement_unit(value) ==
    LET n == int10(value)
    IN  IF IsRaise(n) THEN n
        ELSE EnumCall(ErdMeasurementUnits, "ErdMeasurementUnits", n.ints[1])

_decode_filter_status(value) ==
    LET first == slice(value, 0, 2)
        status_byte == IF first = <<"0","0">> THEN slice(value, 2, 4) ELSE first
        status == EnumCall(ErdFilterStatus, "ErdFilterStatus", status_byte)
    IN  IF IsRaise(status) THEN PyEnum("ErdFilterStatus", "NA") ELSE status

_decode_end_tone(value) ==
    LET tone == EnumCall(ErdEndTone, "ErdEndTone", value)
    IN  IF IsRaise(tone) THEN PyEnum("ErdEndTone", "NA") ELSE tone

_decode_clock_format(value) == EnumCall(ErdClockFormat, "ErdClockFormat", value)

\* a faulty _decode_fridge_door: the left fridge door is left out of the aggregate
_decode_fridge_door_right_only(value) ==
    LET get_door_status(val) ==
            LET status == EnumCall(ErdDoorStatus, "ErdDoorStatus", val)
            IN  IF IsRaise(status) THEN "NA" ELSE status.strs[1]
        fridge_right == get_door_status(slice(value, 0, 2))
        fridge_left == get_door_status(slice(value, 2, 4))
        freezer == get_door_status(slice(value, 4, 6))
        drawer == get_door_status(slice(value, 6, 8))
        status ==
            IF fridge_right # "OPEN"
            THEN IF freezer = "OPEN" THEN "Freezer Open" ELSE "Closed"
            ELSE IF freezer = "OPEN" THEN "All Open"
            ELSE "Fridge Open"
    IN  PyValue("FridgeDoorStatus", <<>>, <<fridge_right, fridge_left, freezer, drawer, status>>)

\* the FridgeDoorStatus: the four fields and the aggregate status
_decode_fridge_door(value) ==
    LET get_door_status(val) ==
            LET status == EnumCall(ErdDoorStatus, "ErdDoorStatus", val)
            IN  IF IsRaise(status) THEN "NA" ELSE status.strs[1]
        fridge_right == get_door_status(slice(value, 0, 2))
        fridge_left == get_door_status(slice(value, 2, 4))
        freezer == get_door_status(slice(value, 4, 6))
        drawer == get_door_status(slice(value, 6, 8))
        status ==
            IF fridge_right # "OPEN" /\ fridge_left # "OPEN"
            THEN IF freezer = "OPEN" THEN "Freezer Open" ELSE "Closed"
            ELSE IF freezer = "OPEN" THEN "All Open"
            ELSE "Fridge Open"
    IN  PyValue("FridgeDoorStatus", <<>>, <<fridge_right, fridge_left, freezer, drawer, status>>)

\* ERD_DECODERS, restricted to the codes of the model
ERD_DECODERS ==
    (HOT_WATER_SET_TEMP :> "decode_erd_int") @@
    (SABBATH_MODE :> "_decode_erd_bool") @@
    (UPPER_OVEN_KITCHEN_TIMER :> "_decode_timespan") @@
    (APPLIANCE_TYPE :> "_decode_appliance_type") @@
    (SOUND_LEVEL :> "_decode_sound_level") @@
    (ICE_MAKER_BUCKET_STATUS :> "_decode_ice_bucket_status") @@
    (DOOR_STATUS :> "_decode_fridge_door")

\* ERD_ENCODERS, restricted to the codes of the model
ERD_ENCODERS ==
    (HOT_WATER_SET_TEMP :> "_encode_erd_int") @@
    (UPPER_OVEN_KITCHEN_TIMER :> "_encode_timespan") @@
    (SABBATH_MODE :> "_encode_erd_bool") @@
    (SOUND_LEVEL :> "_encode_sound_level")

\* a faulty _decode_oven_state: 60 is taken for a special mode
_decode_oven_state_to_60(value) ==
    LET state_code == decode_erd_int(value)
    IN  IF IsRaise(state_code) THEN state_code
        ELSE LET n == state_code.ints[1]
             IN  IF 44 <= n /\ n <= 60 THEN PyEnum("ErdOvenState", "OVEN_STATE_SPECIAL_X")
                 ELSE IF 42 <= n /\ n <= 43 THEN PyEnum("ErdOvenState", "OVEN_STATE_BAKED_GOODS")
                 ELSE IF 40 <= n /\ n <= 41
                      THEN PyEnum("ErdOvenState", "OVEN_STATE_FROZEN_PIZZA_MULTI")
                 ELSE IF 38 <= n /\ n <= 39
                      THEN PyEnum("ErdOvenState", "OVEN_STATE_FROZEN_SNACKS_MULTI")
                 ELSE IF 36 <= n /\ n <= 37 THEN PyEnum("ErdOvenState", "OVEN_STATE_FROZEN_PIZZA")
                 ELSE IF 33 <= n /\ n <= 35 THEN PyEnum("ErdOvenState", "OVEN_STATE_FROZEN_SNACKS")
                 ELSE IF 1 <= n /\ n <= 27
                      THEN EnumCall(ErdOvenState.numbered, "ErdOvenState", n)
                 ELSE PyEnum("ErdOvenState", "STATUS_DASH")

_decode_oven_state(value) ==
    LET state_code == decode_erd_int(value)
    IN  IF IsRaise(state_code) THEN state_code
        ELSE LET n == state_code.ints[1]
             IN  IF 44 <= n /\ n <= 59 THEN PyEnum("ErdOvenState", "OVEN_STATE_SPECIAL_X")
                 ELSE IF 42 <= n /\ n <= 43 THEN PyEnum("ErdOvenState", "OVEN_STATE_BAKED_GOODS")
                 ELSE IF 40 <= n /\ n <= 41
                      THEN PyEnum("ErdOvenState", "OVEN_STATE_FROZEN_PIZZA_MULTI")
                 ELSE IF 38 <= n /\ n <= 39
                      THEN PyEnum("ErdOvenState", "OVEN_STATE_FROZEN_SNACKS_MULTI")
                 ELSE IF 36 <= n /\ n <= 37 THEN PyEnum("ErdOvenState", "OVEN_STATE_FROZEN_PIZZA")
                 ELSE IF 33 <= n /\ n <= 35 THEN PyEnum("ErdOvenState", "OVEN_STATE_FROZEN_SNACKS")
                 ELSE IF 1 <= n /\ n <= 27
                      THEN EnumCall(ErdOvenState.numbered, "ErdOvenState", n)
                 ELSE PyEnum("ErdOvenState", "STATUS_DASH")

\* a set of cook modes: the positions in ErdAvailableCookMode of the entries
\* whose cook_mode is in the set, in increasing order, and their names
PySet(cls, entries) ==
    PyValue("set", entries, [k \in DOMAIN entries |-> ErdAvailableCookMode[entries[k]].cook_mode])

\* a faulty _decode_cook_modes: any bit of the byte makes the mode available
_decode_cook_modes_any_bit(value) ==
    IF value = <<>>
    THEN PySet("ErdOvenCookMode",
               <<(CHOOSE i \in DOMAIN ErdAvailableCookMode :
                    ErdAvailableCookMode[i].member = "OVEN_BAKE")>>)
    ELSE LET decoded == decode_erd_bytes(value)
         IN  IF IsRaise(decoded) THEN decoded
             ELSE LET mode_bytes == decoded.ints
                  IN  IF \E i \in DOMAIN ErdAvailableCookMode :
                            ErdAvailableCookMode[i].byte >= Len(mode_bytes)
                      THEN Raise("IndexError")
                      ELSE PySet("ErdOvenCookMode",
                                 SelectSeq([i \in DOMAIN ErdAvailableCookMode |-> i],
                                           LAMBDA i :
                                             mode_bytes[ErdAvailableCookMode[i].byte + 1] # 0))

_decode_cook_modes(value) ==
    IF value = <<>>
    THEN PySet("ErdOvenCookMode",
               <<(CHOOSE i \in DOMAIN ErdAvailableCookMode :
                    ErdAvailableCookMode[i].member = "OVEN_BAKE")>>)
    ELSE LET decoded == decode_erd_bytes(value)
         IN  IF IsRaise(decoded) THEN decoded
             ELSE LET mode_bytes == decoded.ints
                  IN  IF \E i \in DOMAIN ErdAvailableCookMode :
                            ErdAvailableCookMode[i].byte >= Len(mode_bytes)
                      THEN Raise("IndexError")
                      ELSE PySet("ErdOvenCookMode",
                                 SelectSeq([i \in DOMAIN ErdAvailableCookMode |-> i],
                                           LAMBDA i :
                                             Bit(mode_bytes[ErdAvailableCookMode[i].byte + 1],
                                                 ErdAvailableCookMode[i].mask)))

\* calling an entry of ERD_DECODERS
CallDecoder(f, value) ==
    CASE f = "decode_erd_int" -> decode_erd_int(value)
      [] f = "_decode_erd_bool" -> _decode_erd_bool(value)
      [] f = "_decode_timespan" -> _decode_timespan(value)
      [] f = "_decode_appliance_type" -> _decode_appliance_type(value)
      [] f = "_decode_sound_level" -> _decode_sound_level(value)
      [] f = "_decode_ice_bucket_status" -> _decode_ice_bucket_status(value)
      [] f = "_decode_measurement_unit" -> _decode_measurement_unit(value)
      [] f = "_decode_filter_status" -> _decode_filter_status(value)
      [] f = "_decode_end_tone" -> _decode_end_tone(value)
      [] f = "_decode_clock_format" -> _decode_clock_format(value)
      [] f = "_decode_fridge_door" -> _decode_fridge_door(value)
      [] f = "_decode_oven_state" -> _decode_oven_state(value)
      [] f = "_decode_cook_modes" -> _decode_cook_modes(value)

\* calling an entry of ERD_ENCODERS
CallEncoder(f, value) ==
    CASE f = "_encode_erd_int" -> _encode_erd_int(value)
      [] f = "_encode_timespan" -> _encode_timespan(value)
      [] f = "_encode_erd_bool" -> _encode_erd_bool(value)
      [] f = "_encode_sound_level" -> _encode_sound_level(value)

----------------------------------------------------------------------------
(* GeAppliance: the codec dispatch.  The dispatchers return the value (or  *)
(* the exception raised) together with the converter that was called.      *)

Result(v, conv) == [value |-> v, converter |-> conv]

\* a faulty decode_erd_value: the empty string goes to the decoder like any other
decode_erd_value_dispatch_no_empty_check(erd_code, erd_value) ==
    LET code == translate_erd_code(erd_code)
    IN  IF ~code.isErd
        THEN Result(decode_erd_bytes(erd_value), "decode_erd_bytes")
        ELSE IF /\ code \in DOMAIN _erd_decoders
                /\ CallDecoder(_erd_decoders[code], erd_value) # Raise("KeyError")
        THEN Result(CallDecoder(_erd_decoders[code], erd_value), _erd_decoders[code])
        ELSE Result(decode_erd_int(erd_value), "decode_erd_int")

\* a faulty decode_erd_value: a known code without a decoder is decoded as bytes
decode_erd_value_dispatch_bytes_fallback(erd_code, erd_value) ==
    IF erd_value = <<>> THEN Result(None, "none")
    ELSE LET code == translate_erd_code(erd_code)
         IN  IF code.isErd /\ code \in DOMAIN _erd_decoders
             THEN Result(CallDecoder(_erd_decoders[code], erd_value), _erd_decoders[code])
             ELSE Result(decode_erd_bytes(erd_value), "decode_erd_bytes")

\* the value returned and the decoder called; "except KeyError" takes the int
\* decode both when the code has no decoder and when the decoder raises KeyError
decode_erd_value_dispatch(erd_code, erd_value) ==
    IF erd_value = <<>> THEN Result(None, "none")
    ELSE LET code == translate_erd_code(erd_code)
         IN  IF ~code.isErd
             THEN Result(decode_erd_bytes(erd_value), "decode_erd_bytes")
             ELSE IF /\ code \in DOMAIN _erd_decoders
                     /\ CallDecoder(_erd_decoders[code], erd_value) # Raise("KeyError")
             THEN Result(CallDecoder(_erd_decoders[code], erd_value), _erd_decoders[code])
             ELSE Result(decode_erd_int(erd_value), "decode_erd_int")

\* GeAppliance.decode_erd_value
decode_erd_value(erd_code, erd_value) ==
    decode_erd_value_dispatch(erd_code, erd_value).value

\* a faulty encode_erd_value: None goes to the encoder like any other value
encode_erd_value_dispatch_no_none_check(erd_code, value) ==
    LET code == translate_erd_code(erd_code)
    IN  IF code \in DOMAIN _erd_encoders
        THEN Result(CallEncoder(_erd_encoders[code], value), _erd_encoders[code])
        ELSE Result(Raise("KeyError"), "none")

encode_erd_value_dispatch(erd_code, value) ==
    IF IsNone(value) THEN Result(PyStr(<<>>), "none")
    ELSE LET code == translate_erd_code(erd_code)
         IN  IF code \in DOMAIN _erd_encoders
             THEN Result(CallEncoder(_erd_encoders[code], value), _erd_encoders[code])
             ELSE Result(Raise("KeyError"), "none")

\* GeAppliance.encode_erd_value
encode_erd_value(erd_code, value) ==
    encode_erd_value_dispatch(erd_code, value).value

----------------------------------------------------------------------------
(* erd package: the converter classes, the registry and ErdSerializer *)

ErdIntConverter_erd_decode(value) == int16(value)

ErdIntConverter_erd_encode(value) ==
    IF value.kind \in {"int", "bool"} THEN to_bytes_hex(value.ints[1], 2)
    ELSE Raise("TypeError")

ErdSignedByteConverter_erd_decode(value) ==
    LET val == int16(value)
    IN  IF IsRaise(val) THEN val
        ELSE IF val.ints[1] > 128 THEN PyInt(val.ints[1] - 256)
        ELSE val

ErdSignedByteConverter_erd_encode(value) ==
    IF value.kind \notin {"int", "bool"} THEN Raise("TypeError")
    ELSE to_bytes_hex(IF value.ints[1] < 0 THEN value.ints[1] + 256 ELSE value.ints[1], 1)

ErdBytesConverter_erd_decode(value) == fromhex(value)

\* ErdBytesConverter.erd_encode: value.hex('big'); only bytes have hex, and
\* bytes.hex takes a separator of one character (the model never encodes bytes)
ErdBytesConverter_erd_encode(value) ==
    IF value.kind = "bytes" THEN Raise("ValueError") ELSE Raise("AttributeError")

ErdBoolConverter_erd_decode(value) ==
    IF value = <<"F","F">> THEN None
    ELSE LET n == int10(value)
         IN  IF IsRaise(n) THEN n ELSE PyBool(n.ints[1] # 0)

ErdBoolConverter_erd_encode(value) ==
    IF IsNone(value) THEN PyStr(<<"F","F">>)
    ELSE IF Truthy(value) THEN PyStr(<<"0","1">>) ELSE PyStr(<<"0","0">>)

ErdTimeSpanConverter_erd_decode(value) ==
    LET minutes == int16(value)
    IN  IF IsRaise(minutes) THEN minutes
        ELSE IF minutes.ints[1] = 65535 THEN None
        ELSE PyTimedelta(minutes.ints[1])

ErdTimeSpanConverter_erd_encode(value) ==
    IF IsNone(value) THEN to_bytes_hex(65535, 2)
    ELSE IF value.kind # "timedelta" THEN Raise("AttributeError")
    ELSE to_bytes_hex(timedelta_seconds(value) \div 60, 2)

ErdReadOnlyConverter_erd_encode(value) == Raise("NotImplementedError")

ErdApplianceTypeConverter_erd_decode(value) ==
    IF \E e \in ErdApplianceType : e.value = value
    THEN PyEnum("ErdApplianceType",
                (CHOOSE e \in ErdApplianceType : e.value = value).member)
    ELSE PyEnum("ErdApplianceType", "UNKNOWN")

ErdSoundLevelConverter_erd_decode(value) ==
    LET sound_level == ErdIntConverter_erd_decode(value)
    IN  IF IsRaise(sound_level) THEN sound_level
        ELSE IF \E e \in ErdSoundLevel : e.value = sound_level.ints[1]
        THEN PyEnum("ErdSoundLevel",
                    (CHOOSE e \in ErdSoundLevel : e.value = sound_level.ints[1]).member)
        ELSE Raise("ValueError")

ErdSoundLevelConverter_erd_encode(value) ==
    IF value.kind # "ErdSoundLevel" THEN Raise("AttributeError")
    ELSE ErdIntConverter_erd_encode(
            PyInt((CHOOSE e \in ErdSoundLevel : e.member = value.strs[1]).value))

OvenCookModeConverter_erd_decode(value) ==
    LET byte_string == ErdBytesConverter_erd_decode(value)
    IN  IF IsRaise(byte_string) THEN byte_string
        ELSE IF byte_string.ints = <<>> THEN Raise("IndexError")
        ELSE LET cook_mode_code == byte_string.ints[1]
                 temperature == from_bytes(SubSeq(byte_string.ints, 2,
                                    IF Len(byte_string.ints) < 3 THEN Len(byte_string.ints) ELSE 3))
             IN  IF ~\E e \in ErdOvenCookMode : e.value = cook_mode_code
                 THEN Raise("ValueError")
                 ELSE LET cook_mode == (CHOOSE e \in ErdOvenCookMode : e.value = cook_mode_code).member
                      IN  IF cook_mode \notin DOMAIN OVEN_COOK_MODE_MAP THEN Raise("KeyError")
                          ELSE OvenCookSetting(OVEN_COOK_MODE_MAP[cook_mode], temperature, byte_string)

OvenCookModeConverter_erd_encode(value) ==
    IF value.kind # "OvenCookSetting" THEN Raise("AttributeError")
    ELSE LET cook_mode == cook_mode_of(value)
         IN  IF ~\E m \in DOMAIN OVEN_COOK_MODE_MAP : OVEN_COOK_MODE_MAP[m] = cook_mode
             THEN Raise("KeyError")
             ELSE LET member == CHOOSE m \in DOMAIN OVEN_COOK_MODE_MAP :
                                    OVEN_COOK_MODE_MAP[m] = cook_mode
                      cook_mode_code == (CHOOSE e \in ErdOvenCookMode : e.member = member).value
                      cook_mode_hex == to_bytes_hex(cook_mode_code, 1)
                      temperature_hex == to_bytes_hex(temperature_of(value), 2)
                  IN  IF IsRaise(cook_mode_hex) THEN cook_mode_hex
                      ELSE IF IsRaise(temperature_hex) THEN temperature_hex
                      ELSE PyStr(cook_mode_hex.strs \o temperature_hex.strs
                                 \o [i \in 1..20 |-> "0"])

ErdMeasurementUnitsConverter_erd_decode(value) ==
    LET n == int10(value)
    IN  IF IsRaise(n) THEN n
        ELSE EnumCall(ErdMeasurementUnits, "ErdMeasurementUnits", n.ints[1])

ErdEndToneConverter_erd_decode(value) ==
    LET tone == EnumCall(ErdEndTone, "ErdEndTone", value)
    IN  IF IsRaise(tone) THEN PyEnum("ErdEndTone", "NA") ELSE tone

ErdClockFormatConverter_erd_decode(value) == EnumCall(ErdClockFormat, "ErdClockFormat", value)

ErdFilterStatusConverter_erd_decode(value) ==
    LET first == slice(value, 0, 2)
        status_byte == IF first = <<"0","0">> THEN slice(value, 2, 4) ELSE first
        status == EnumCall(ErdFilterStatus, "ErdFilterStatus", status_byte)
    IN  IF IsRaise(status) THEN PyEnum("ErdFilterStatus", "NA") ELSE status

FridgeDoorStatusConverter_erd_decode(value) ==
    LET get_door_status(val) ==
            LET status == EnumCall(ErdDoorStatus, "ErdDoorStatus", val)
            IN  IF IsRaise(status) THEN "NA" ELSE status.strs[1]
        fridge_right == get_door_status(slice(value, 0, 2))
        fridge_left == get_door_status(slice(value, 2, 4))
        freezer == get_door_status(slice(value, 4, 6))
        drawer == get_door_status(slice(value, 6, 8))
        status ==
            IF fridge_right # "OPEN" /\ fridge_left # "OPEN"
            THEN IF freezer = "OPEN" THEN "Freezer Open" ELSE "Closed"
            ELSE IF freezer = "OPEN" THEN "All Open"
            ELSE "Fridge Open"
    IN  PyValue("FridgeDoorStatus", <<>>, <<fridge_right, fridge_left, freezer, drawer, status>>)

\* converters/fridge.py takes ErdIntConverter from converters/primitives.py,
\* where erd_decode is an instance method: called on the class with the one
\* argument, the call fails for want of the second.
FridgeIceBucketStatusConverter_erd_decode(value) ==
    LET n == IF value = <<>> THEN PyInt(0) ELSE Raise("TypeError")
    IN  IF IsRaise(n) THEN n
        ELSE LET is_present_ff == Bit(n.ints[1], 1)
                 is_present_fz == Bit(n.ints[1], 2)
                 state_full_ff == IF ~is_present_ff THEN "NA"
                                  ELSE IF Bit(n.ints[1], 4) THEN "FULL" ELSE "NOT_FULL"
                 state_full_fz == IF ~is_present_fz THEN "NA"
                                  ELSE IF Bit(n.ints[1], 8) THEN "FULL" ELSE "NOT_FULL"
                 total_status ==
                     IF ~(is_present_ff \/ is_present_ff) THEN "NA"
                     ELSE IF state_full_ff = "NOT_FULL" \/ state_full_fz = "NOT_FULL"
                          THEN "NOT_FULL"
                     ELSE "FULL"
             IN  PyValue("FridgeIceBucketStatus",
                         <<BoolInt(is_present_ff), BoolInt(is_present_fz)>>,
                         <<state_full_ff, state_full_fz, total_status>>)

\* _registry, restricted to the codes of the model
_registry ==
    (APPLIANCE_TYPE :> "ErdApplianceTypeConverter") @@
    (SABBATH_MODE :> "ErdBoolConverter") @@
    (SOUND_LEVEL :> "ErdSoundLevelConverter") @@
    (HOT_WATER_SET_TEMP :> "ErdIntConverter") @@
    (ICE_MAKER_BUCKET_STATUS :> "FridgeIceBucketStatusConverter") @@
    (UPPER_OVEN_KITCHEN_TIMER :> "ErdTimeSpanConverter") @@
    (DOOR_STATUS :> "FridgeDoorStatusConverter")

\* primitives.erd_decode_bool and erd_encode_bool: both go to the module's
\* ErdBytesConverter
erd_decode_bool(value) == ErdBytesConverter_erd_decode(value)

erd_encode_bool(value) == ErdBytesConverter_erd_encode(value)

\* primitives.erd_decode_int: erd_decode of the module's ErdIntConverter
erd_decode_int(value) == int16(value)

ErdOvenStateConverter_erd_decode(value) ==
    LET state_code == erd_decode_int(value)
    IN  IF IsRaise(state_code) THEN state_code
        ELSE LET n == state_code.ints[1]
             IN  IF 44 <= n /\ n <= 59 THEN PyEnum("ErdOvenState", "OVEN_STATE_SPECIAL_X")
                 ELSE IF 42 <= n /\ n <= 43 THEN PyEnum("ErdOvenState", "OVEN_STATE_BAKED_GOODS")
                 ELSE IF 40 <= n /\ n <= 41
                      THEN PyEnum("ErdOvenState", "OVEN_STATE_FROZEN_PIZZA_MULTI")
                 ELSE IF 38 <= n /\ n <= 39
                      THEN PyEnum("ErdOvenState", "OVEN_STATE_FROZEN_SNACKS_MULTI")
                 ELSE IF 36 <= n /\ n <= 37 THEN PyEnum("ErdOvenState", "OVEN_STATE_FROZEN_PIZZA")
                 ELSE IF 33 <= n /\ n <= 35 THEN PyEnum("ErdOvenState", "OVEN_STATE_FROZEN_SNACKS")
                 ELSE IF 1 <= n /\ n <= 27
                      THEN EnumCall(ErdOvenState.numbered, "ErdOvenState", n)
                 ELSE PyEnum("ErdOvenState", "STATUS_DASH")

\* primitives.erd_decode_bytes: erd_decode of the module's ErdBytesConverter
erd_decode_bytes(value) == ErdBytesConverter_erd_decode(value)

ErdAvailableCookModeConverter_erd_decode(value) ==
    IF value = <<>>
    THEN PySet("ErdOvenCookMode",
               <<(CHOOSE i \in DOMAIN ErdAvailableCookMode :
                    ErdAvailableCookMode[i].member = "OVEN_BAKE")>>)
    ELSE LET decoded == erd_decode_bytes(value)
         IN  IF IsRaise(decoded) THEN decoded
             ELSE LET mode_bytes == decoded.ints
                  IN  IF \E i \in DOMAIN ErdAvailableCookMode :
                            ErdAvailableCookMode[i].byte >= Len(mode_bytes)
                      THEN Raise("IndexError")
                      ELSE PySet("ErdOvenCookMode",
                                 SelectSeq([i \in DOMAIN ErdAvailableCookMode |-> i],
                                           LAMBDA i :
                                             Bit(mode_bytes[ErdAvailableCookMode[i].byte + 1],
                                                 ErdAvailableCookMode[i].mask)))

\* converter.erd_decode(value)
erd_decode(converter, value) ==
    CASE converter = "ErdApplianceTypeConverter" -> ErdApplianceTypeConverter_erd_decode(value)
      [] converter = "ErdBoolConverter" -> ErdBoolConverter_erd_decode(value)
      [] converter = "ErdSoundLevelConverter" -> ErdSoundLevelConverter_erd_decode(value)
      [] converter = "ErdIntConverter" -> ErdIntConverter_erd_decode(value)
      [] converter = "FridgeIceBucketStatusConverter" ->
            FridgeIceBucketStatusConverter_erd_decode(value)
      [] converter = "ErdTimeSpanConverter" -> ErdTimeSpanConverter_erd_decode(value)
      [] converter = "ErdMeasurementUnitsConverter" ->
            ErdMeasurementUnitsConverter_erd_decode(value)
      [] converter = "ErdEndToneConverter" -> ErdEndToneConverter_erd_decode(value)
      [] converter = "ErdClockFormatConverter" -> ErdClockFormatConverter_erd_decode(value)
      [] converter = "ErdFilterStatusConverter" -> ErdFilterStatusConverter_erd_decode(value)
      [] converter = "FridgeDoorStatusConverter" -> FridgeDoorStatusConverter_erd_decode(value)
      [] converter = "ErdOvenStateConverter" -> ErdOvenStateConverter_erd_decode(value)
      [] converter = "ErdAvailableCookModeConverter" ->
            ErdAvailableCookModeConverter_erd_decode(value)

\* the converters of the model that derive from ErdReadOnlyConverter
ReadOnlyConverters == {
    "ErdApplianceTypeConverter", "FridgeIceBucketStatusConverter", "FridgeDoorStatusConverter" }

\* converter.erd_encode(value)
erd_encode(converter, value) ==
    CASE converter = "ErdApplianceTypeConverter" -> ErdReadOnlyConverter_erd_encode(value)
      [] converter = "ErdBoolConverter" -> ErdBoolConverter_erd_encode(value)
      [] converter = "ErdSoundLevelConverter" -> ErdSoundLevelConverter_erd_encode(value)
      [] converter = "ErdIntConverter" -> ErdIntConverter_erd_encode(value)
      [] converter = "FridgeIceBucketStatusConverter" -> ErdReadOnlyConverter_erd_encode(value)
      [] converter = "FridgeDoorStatusConverter" -> ErdReadOnlyConverter_erd_encode(value)
      [] converter = "ErdTimeSpanConverter" -> ErdTimeSpanConverter_erd_encode(value)

ErdSerializer_decode_erd_value_dispatch(erd_code, erd_value) ==
    IF erd_value = <<>> THEN Result(None, "none")
    ELSE LET code == ErdSerializer_translate_erd_code(erd_code)
         IN  IF ~code.isErd
             THEN Result(ErdBytesConverter_erd_decode(erd_value), "ErdBytesConverter")
             ELSE IF /\ code \in DOMAIN registry
                     /\ erd_decode(registry[code], erd_value) # Raise("KeyError")
             THEN Result(erd_decode(registry[code], erd_value), registry[code])
             ELSE Result(ErdIntConverter_erd_decode(erd_value), "ErdIntConverter")

\* ErdSerializer.decode_erd_value
ErdSerializer_decode_erd_value(erd_code, erd_value) ==
    ErdSerializer_decode_erd_value_dispatch(erd_code, erd_value).value

ErdSerializer_encode_erd_value_dispatch(erd_code, value) ==
    IF IsNone(value) THEN Result(PyStr(<<>>), "none")
    ELSE LET code == ErdSerializer_translate_erd_code(erd_code)
         IN  IF code \in DOMAIN registry
             THEN Result(erd_encode(registry[code], value), registry[code])
             ELSE Result(Raise("KeyError"), "none")

\* ErdSerializer.encode_erd_value
ErdSerializer_encode_erd_value(erd_code, value) ==
    ErdSerializer_encode_erd_value_dispatch(erd_code, value).value

----------------------------------------------------------------------------
(* GeAppliance: the state cache and the update callbacks *)

\* a Python dict is a function on the set of its keys
EmptyDict == [k \in {} |-> None]
DictGet(d, k) == IF k \in DOMAIN d THEN d[k] ELSE None
DictSet(d, k, v) == [x \in DOMAIN d \cup {k} |-> IF x = k THEN v ELSE d[x]]

\* GeAppliance.get_erd_value
get_erd_value(cache, erd_code) ==
    LET code == translate_erd_code(erd_code)
    IN  IF code \in DOMAIN cache THEN cache[code] ELSE Raise("KeyError")

\* a faulty _async_trigger_update_callbacks: the coroutines are left out
_async_trigger_update_callbacks_functions_only(functions, coroutines, changes) ==
    IF DOMAIN changes # {}
    THEN [i \in 1..Len(functions) |->
            [callback |-> functions[i], state_changes |-> changes]]
    ELSE <<>>

\* GeAppliance._async_trigger_update_callbacks: the calls it makes, in order
_async_trigger_update_callbacks(functions, coroutines, changes) ==
    IF DOMAIN changes # {}
    THEN [i \in 1..(Len(functions) + Len(coroutines)) |->
            [callback |-> (functions \o coroutines)[i], state_changes |-> changes]]
    ELSE <<>>

\* the calls cs, each made while the cache of the appliance is cache
Observing(cs, cache) ==
    IF Len(cs) = 0 THEN <<>>
    ELSE [i \in 1..Len(cs) |->
            [callback |-> cs[i].callback, state_changes |-> cs[i].state_changes,
             _property_cache |-> cache]]

\* a faulty comparison: only the null-ness of the two values is compared
StateChanged_nullness_only(prior, value) ==
    IsNone(prior) # IsNone(value)

\* the comparison of async_update_erd_value; != raises for no value of the model
StateChanged(prior, value) ==
    (IsNone(prior) # IsNone(value)) \/ (prior # value)

\* a faulty async_update_erd_value: old_value is looked up under the identifier
\* as given, not under the resolved code
async_update_erd_value_raw_lookup(cache, functions, coroutines, erd_code, erd_value, trigger_callbacks) ==
    LET code == translate_erd_code(erd_code)
        value == decode_erd_value(code, erd_value)
        prior == DictGet(cache, erd_code)
        state_changed == StateChanged(prior, value)
    IN  IF IsRaise(value)
        THEN [cache |-> cache, ret |-> value, old_value |-> None, calls |-> <<>>]
        ELSE [cache |-> DictSet(cache, code, value),
              ret |-> PyBool(state_changed),
              old_value |-> prior,
              calls |-> IF state_changed /\ trigger_callbacks
                        THEN _async_trigger_update_callbacks(
                                functions, coroutines, DictSet(EmptyDict, code, value))
                        ELSE <<>>]

\* a faulty async_update_erd_value: the cache is written only when the value changed
async_update_erd_value_write_if_changed(cache, functions, coroutines, erd_code, erd_value, trigger_callbacks) ==
    LET code == translate_erd_code(erd_code)
        value == decode_erd_value(code, erd_value)
        prior == DictGet(cache, code)
        state_changed == StateChanged(prior, value)
    IN  IF IsRaise(value)
        THEN [cache |-> cache, ret |-> value, old_value |-> None, calls |-> <<>>]
        ELSE [cache |-> IF state_changed THEN DictSet(cache, code, value) ELSE cache,
              ret |-> PyBool(state_changed),
              old_value |-> prior,
              calls |-> IF state_changed /\ trigger_callbacks
                        THEN _async_trigger_update_callbacks(
                                functions, coroutines, DictSet(EmptyDict, code, value))
                        ELSE <<>>]

\* a faulty async_update_erd_value: a value of None removes the entry
async_update_erd_value_pop_none(cache, functions, coroutines, erd_code, erd_value, trigger_callbacks) ==
    LET code == translate_erd_code(erd_code)
        value == decode_erd_value(code, erd_value)
        prior == DictGet(cache, code)
        state_changed == StateChanged(prior, value)
    IN  IF IsRaise(value)
        THEN [cache |-> cache, ret |-> value, old_value |-> None, calls |-> <<>>]
        ELSE [cache |-> IF IsNone(value)
                        THEN [x \in DOMAIN cache \ {code} |-> cache[x]]
                        ELSE DictSet(cache, code, value),
              ret |-> PyBool(state_changed),
              old_value |-> prior,
              calls |-> IF state_changed /\ trigger_callbacks
                        THEN _async_trigger_update_callbacks(
                                functions, coroutines, DictSet(EmptyDict, code, value))
                        ELSE <<>>]

\* a faulty async_update_erd_value: the callbacks are called before the cache
\* is written
async_update_erd_value_notify_first(cache, functions, coroutines, erd_code, erd_value, trigger_callbacks) ==
    LET code == translate_erd_code(erd_code)
        value == decode_erd_value(code, erd_value)
        prior == DictGet(cache, code)
        state_changed == StateChanged(prior, value)
    IN  IF IsRaise(value)
        THEN [cache |-> cache, ret |-> value, old_value |-> None, calls |-> <<>>]
        ELSE [cache |-> DictSet(cache, code, value),
              ret |-> PyBool(state_changed),
              old_value |-> prior,
              calls |-> IF state_changed /\ trigger_callbacks
                        THEN Observing(
                                _async_trigger_update_callbacks(
                                    functions, coroutines, DictSet(EmptyDict, code, value)),
                                cache)
                        ELSE <<>>]

\* GeAppliance.async_update_erd_value: the new cache, the value returned (or
\* the exception raised by the decoder), the local old_value and the callbacks
\* called, after the cache is
\* written
async_update_erd_value(cache, functions, coroutines, erd_code, erd_value, trigger_callbacks) ==
    LET code == translate_erd_code(erd_code)
        value == decode_erd_value(code, erd_value)
        prior == DictGet(cache, code)
        state_changed == StateChanged(prior, value)
    IN  IF IsRaise(value)
        THEN [cache |-> cache, ret |-> value, old_value |-> None, calls |-> <<>>]
        ELSE [cache |-> DictSet(cache, code, value),
              ret |-> PyBool(state_changed),
              old_value |-> prior,
              calls |-> IF state_changed /\ trigger_callbacks
                        THEN Observing(
                                _async_trigger_update_callbacks(
                                    functions, coroutines, DictSet(EmptyDict, code, value)),
                                DictSet(cache, code, value))
                        ELSE <<>>]

\* a faulty async_update_erd_values: the entries are applied with their callbacks
update_entry_notifying(cache, functions, coroutines, k, v) ==
    async_update_erd_value(cache, functions, coroutines, k, v, TRUE)

\* async_update_erd_values, the condition of the comprehension: the update of
\* one entry, its callbacks held back
update_entry(cache, functions, coroutines, k, v) ==
    async_update_erd_value(cache, functions, coroutines, k, v, FALSE)

\* a faulty async_update_erd_values: the comprehension has lost its condition
collect_entry_always(changes, changed, k, v) ==
    DictSet(changes, translate_erd_code(k), decode_erd_value(k, v))

\* a faulty async_update_erd_values: the key of the dict is not resolved
collect_entry_raw_key(changes, changed, k, v) ==
    IF changed
    THEN DictSet(changes, k, decode_erd_value(k, v))
    ELSE changes

\* async_update_erd_values, one iteration of the comprehension: the entry is
\* added to state_changes if its update reported a change
collect_entry(changes, changed, k, v) ==
    IF changed
    THEN DictSet(changes, translate_erd_code(k), decode_erd_value(k, v))
    ELSE changes

----------------------------------------------------------------------------
(* The appliance as a state machine *)

\* the callables registered in the model: a plain function and a coroutine function
Callbacks == {[name |-> "f", coroutine |-> FALSE], [name |-> "g", coroutine |-> TRUE]}

\* identifiers the calls of the model use: a member, its name, its wire value
\* in upper case, and an unknown wire value in both letter cases
CacheCodes == {
    SABBATH_MODE,
    Str(<<"S","A","B","B","A","T","H","_","M","O","D","E">>),
    Str(<<"0","X","0","0","0","9">>),
    Str(<<"0","x","d","e","a","d">>),
    Str(<<"0","x","D","E","A","D">>) }

\* raw values the calls of the model use: "", "01", "FF" and the malformed "F"
CacheValues == { <<>>, <<"0","1">>, <<"F","F">>, <<"F">> }

\* (erd_code, erd_value) arguments of the single updates of the model
UpdateInputs ==
    ({ SABBATH_MODE, Str(<<"0","X","0","0","0","9">>), Str(<<"0","x","d","e","a","d">>) }
        \X CacheValues)
        \cup { << Str(<<"S","A","B","B","A","T","H","_","M","O","D","E">>), <<"0","1">> >>,
                << Str(<<"0","x","D","E","A","D">>), <<"0","1">> >> }

\* (erd_code, erd_value) arguments of the decode calls of the model
DecodeInputs == {
    << SABBATH_MODE, <<>> >>,
    << SABBATH_MODE, <<"0","1">> >>,
    << Str(<<"0","x","d","e","a","d">>), <<"0","1">> >> }

\* (erd_code, value) arguments of the encode calls of the model
EncodeInputs == {
    << SABBATH_MODE, None >>,
    << SABBATH_MODE, PyBool(TRUE) >>,
    << Str(<<"0","x","d","e","a","d">>), PyBool(TRUE) >> }

\* entries (key, raw value) of the dicts passed to async_update_erd_values
BatchInputs ==
    ({ SABBATH_MODE, Str(<<"0","X","0","0","0","9">>) } \X { <<"0","1">>, <<"F","F">> })
        \cup { << Str(<<"0","x","d","e","a","d">>), <<"0","1">> >>,
                << Str(<<"0","x","d","e","a","d">>), <<"F">> >> }

NoCode == Str(<<>>)
Call(name, erd_code, erd_value, value, trigger_callbacks) ==
    [name |-> name, erd_code |-> erd_code, erd_value |-> erd_value,
     value |-> value, trigger_callbacks |-> trigger_callbacks]
Returned(v, d) == [value |-> v, dict |-> d, converter |-> "none"]
ReturnedBy(result) == [value |-> result.value, dict |-> EmptyDict, converter |-> result.converter]

\* no batch is running and none has just returned
NoBatch ==
    /\ pc' = "idle"
    /\ batch_used' = {}
    /\ batch_before' = EmptyDict
    /\ batch_trigger' = FALSE
    /\ state_changes' = EmptyDict

\* const.py: the events of the clients
EVENT_ADD_APPLIANCE == "add_appliance"
EVENT_APPLIANCE_INITIAL_UPDATE == "appliance_got_type"
EVENT_APPLIANCE_STATE_CHANGE == "appliance_state_change"
EVENT_APPLIANCE_UPDATE_RECEIVED == "appliance_updated_received"
EVENT_GOT_APPLIANCE_LIST == "got_appliance_list"
Events == { EVENT_ADD_APPLIANCE, EVENT_APPLIANCE_INITIAL_UPDATE, EVENT_APPLIANCE_STATE_CHANGE,
            EVENT_APPLIANCE_UPDATE_RECEIVED, EVENT_GOT_APPLIANCE_LIST }

\* a message of the socket, json-decoded: kind ("" when the key is missing),
\* id ("" when missing, "setErd" and "allErd" for the ids that hold -setErd-
\* and -allErd), code, and the appliance, the code, the raw value and the
\* items of the body
Message(kind, id, code, mac_addr, erd, value, items) ==
    [kind |-> kind, id |-> id, code |-> code, mac_addr |-> mac_addr, erd |-> erd,
     value |-> value, items |-> items]

\* a call of the client: its name and its arguments, laid out as a message
Request(name, message) == [name |-> name, message |-> message]
Arguments(mac_addr, erd, value) == Message("", "", 0, mac_addr, erd, value, <<>>)

ClientVars == <<appliances, _pending_erds, _event_handlers, tasks, events, sent, request>>

\* GeBaseClient.__init__ and GeWebsocketClient.__init__: no appliance, nothing
\* pending, and maybe_trigger_appliance_init_event handling the state changes
InitClient ==
    /\ appliances = EmptyDict
    /\ _pending_erds = EmptyDict
    /\ _event_handlers =
            [event \in Events |->
                IF event = EVENT_APPLIANCE_STATE_CHANGE
                THEN <<"maybe_trigger_appliance_init_event">>
                ELSE <<>>]
    /\ tasks = <<>>
    /\ events = <<>>
    /\ sent = {}
    /\ request = Request("__init__", Arguments("", <<>>, <<>>))

Init ==
    /\ property_cache = EmptyDict
    /\ applied = EmptyDict
    /\ update_functions = <<>>
    /\ update_coroutines = <<>>
    /\ available = FALSE
    /\ pc = "idle"
    /\ batch_used = {}
    /\ batch_before = EmptyDict
    /\ batch_trigger = FALSE
    /\ state_changes = EmptyDict
    /\ op = Call("__init__", NoCode, <<>>, None, FALSE)
    /\ ret = Returned(None, EmptyDict)
    /\ calls = <<>>
    /\ old_value = None
    /\ _erd_decoders = ERD_DECODERS
    /\ _erd_encoders = ERD_ENCODERS
    /\ registry = _registry
    /\ InitClient

register_update_callback(callback) ==
    /\ pc = "idle"
    /\ Len(update_functions) + Len(update_coroutines) < MaxCallbacks
    /\ IF callback.coroutine
       THEN /\ update_coroutines' = Append(update_coroutines, callback)
            /\ UNCHANGED update_functions
       ELSE /\ update_functions' = Append(update_functions, callback)
            /\ UNCHANGED update_coroutines
    /\ op' = Call("register_update_callback", NoCode, <<>>, None, FALSE)
    /\ ret' = Returned(None, EmptyDict)
    /\ calls' = <<>>
    /\ old_value' = None
    /\ NoBatch
    /\ UNCHANGED <<ClientVars, _erd_decoders, _erd_encoders, registry, property_cache, applied, available>>

async_set_available ==
    /\ pc = "idle"
    /\ available' = TRUE
    /\ op' = Call("async_set_available", NoCode, <<>>, None, FALSE)
    /\ ret' = Returned(None, EmptyDict)
    /\ calls' = <<>>
    /\ old_value' = None
    /\ NoBatch
    /\ UNCHANGED <<ClientVars, _erd_decoders, _erd_encoders, registry, property_cache, applied, update_functions, update_coroutines>>

async_set_unavailable ==
    /\ pc = "idle"
    /\ available' = FALSE
    /\ op' = Call("async_set_unavailable", NoCode, <<>>, None, FALSE)
    /\ ret' = Returned(None, EmptyDict)
    /\ calls' = <<>>
    /\ old_value' = None
    /\ NoBatch
    /\ UNCHANGED <<ClientVars, _erd_decoders, _erd_encoders, registry, property_cache, applied, update_functions, update_coroutines>>

GetErdValue(erd_code) ==
    /\ pc = "idle"
    /\ op' = Call("get_erd_value", erd_code, <<>>, None, FALSE)
    /\ ret' = Returned(get_erd_value(property_cache, erd_code), EmptyDict)
    /\ calls' = <<>>
    /\ old_value' = None
    /\ NoBatch
    /\ UNCHANGED <<ClientVars, _erd_decoders, _erd_encoders, registry, property_cache, applied, update_functions, update_coroutines, available>>

\* a faulty decode_erd_value: the int fallback is remembered in the table
DecodeErdValue_remembering_fallback(erd_code, erd_value) ==
    /\ pc = "idle"
    /\ op' = Call("decode_erd_value", erd_code, erd_value, None, FALSE)
    /\ ret' = ReturnedBy(decode_erd_value_dispatch(erd_code, erd_value))
    /\ calls' = <<>>
    /\ old_value' = None
    /\ NoBatch
    /\ _erd_decoders' =
            IF /\ erd_value # <<>>
               /\ translate_erd_code(erd_code).isErd
               /\ translate_erd_code(erd_code) \notin DOMAIN _erd_decoders
            THEN DictSet(_erd_decoders, translate_erd_code(erd_code), "decode_erd_int")
            ELSE _erd_decoders
    /\ UNCHANGED <<ClientVars, _erd_encoders, registry, property_cache, applied, update_functions, update_coroutines, available>>

DecodeErdValue(erd_code, erd_value) ==
    /\ pc = "idle"
    /\ op' = Call("decode_erd_value", erd_code, erd_value, None, FALSE)
    /\ ret' = ReturnedBy(decode_erd_value_dispatch(erd_code, erd_value))
    /\ calls' = <<>>
    /\ old_value' = None
    /\ NoBatch
    /\ UNCHANGED <<ClientVars, _erd_decoders, _erd_encoders, registry, property_cache, applied, update_functions, update_coroutines, available>>

EncodeErdValue(erd_code, value) ==
    /\ pc = "idle"
    /\ op' = Call("encode_erd_value", erd_code, <<>>, value, FALSE)
    /\ ret' = ReturnedBy(encode_erd_value_dispatch(erd_code, value))
    /\ calls' = <<>>
    /\ old_value' = None
    /\ NoBatch
    /\ UNCHANGED <<ClientVars, _erd_decoders, _erd_encoders, registry, property_cache, applied, update_functions, update_coroutines, available>>

\* the raw value most recently applied for each cache key
Applied(result, erd_code, erd_value) ==
    IF IsRaise(result.ret) THEN applied
    ELSE DictSet(applied, translate_erd_code(erd_code), erd_value)

AsyncUpdateErdValue(erd_code, erd_value, trigger_callbacks) ==
    /\ pc = "idle"
    /\ LET result == async_update_erd_value(property_cache, update_functions,
                        update_coroutines, erd_code, erd_value, trigger_callbacks)
       IN  /\ property_cache' = result.cache
           /\ applied' = Applied(result, erd_code, erd_value)
           /\ ret' = Returned(result.ret, EmptyDict)
           /\ calls' = result.calls
           /\ old_value' = result.old_value
    /\ op' = Call("async_update_erd_value", erd_code, erd_value, None, trigger_callbacks)
    /\ NoBatch
    /\ UNCHANGED <<ClientVars, _erd_decoders, _erd_encoders, registry, update_functions, update_coroutines, available>>

\* async_update_erd_values is entered with a dict of at most MaxBatch entries
BatchBegin(trigger_callbacks) ==
    /\ pc = "idle"
    /\ pc' = "batch"
    /\ batch_used' = {}
    /\ batch_before' = property_cache
    /\ batch_trigger' = trigger_callbacks
    /\ state_changes' = EmptyDict
    /\ op' = Call("async_update_erd_values", NoCode, <<>>, None, trigger_callbacks)
    /\ ret' = Returned(None, EmptyDict)
    /\ calls' = <<>>
    /\ old_value' = None
    /\ UNCHANGED <<ClientVars, _erd_decoders, _erd_encoders, registry, property_cache, applied, update_functions, update_coroutines, available>>

\* one iteration of the comprehension: the next entry (k, v) of the dict; an
\* exception of the decoder leaves the method
BatchItem(k, v) ==
    /\ pc = "batch"
    /\ k \notin batch_used
    /\ Cardinality(batch_used) < MaxBatch
    /\ LET result == update_entry(property_cache, update_functions, update_coroutines, k, v)
       IN  /\ property_cache' = result.cache
           /\ applied' = Applied(result, k, v)
           /\ calls' = result.calls
           /\ old_value' = result.old_value
           /\ IF IsRaise(result.ret)
              THEN /\ pc' = "idle"
                   /\ ret' = Returned(result.ret, EmptyDict)
                   /\ UNCHANGED state_changes
              ELSE /\ pc' = "batch"
                   /\ ret' = Returned(None, EmptyDict)
                   /\ state_changes' =
                        collect_entry(state_changes, result.ret = PyBool(TRUE), k, v)
    /\ batch_used' = batch_used \cup {k}
    /\ op' = Call("async_update_erd_values", k, v, None, batch_trigger)
    /\ UNCHANGED <<ClientVars, _erd_decoders, _erd_encoders, registry, batch_before, batch_trigger, update_functions, update_coroutines, available>>

\* the dict is exhausted: the callbacks, then the return
BatchEnd ==
    /\ pc = "batch"
    /\ pc' = "idle"
    /\ calls' = IF batch_trigger
                THEN Observing(
                        _async_trigger_update_callbacks(
                            update_functions, update_coroutines, state_changes),
                        property_cache)
                ELSE <<>>
    /\ ret' = Returned(PyValue("dict", <<>>, <<>>), state_changes)
    /\ old_value' = None
    /\ op' = Call("async_update_erd_values", NoCode, <<>>, None, batch_trigger)
    /\ UNCHANGED <<ClientVars, _erd_decoders, _erd_encoders, registry, property_cache, applied, update_functions, update_coroutines, available,
                   batch_used, batch_before, batch_trigger, state_changes>>

Next ==
    \/ \E callback \in Callbacks : register_update_callback(callback)
    \/ async_set_available
    \/ async_set_unavailable
    \/ \E erd_code \in CacheCodes : GetErdValue(erd_code)
    \/ \E input \in DecodeInputs : DecodeErdValue(input[1], input[2])
    \/ \E input \in EncodeInputs : EncodeErdValue(input[1], input[2])
    \/ \E input \in UpdateInputs, trigger_callbacks \in BOOLEAN :
            AsyncUpdateErdValue(input[1], input[2], trigger_callbacks)
    \/ \E trigger_callbacks \in BOOLEAN : BatchBegin(trigger_callbacks)
    \/ \E entry \in BatchInputs : BatchItem(entry[1], entry[2])
    \/ BatchEnd

Spec == Init /\ [][Next]_vars

----------------------------------------------------------------------------
(* The batches on their own: async_update_erd_values called again and again *)
(* on an appliance that starts without cached state.                        *)

\* entries (key, raw value) of the dicts: DOOR_STATUS as constant, by name and
\* by wire value, with "01000000", "00000000" and "00000100"; SABBATH_MODE with
\* "01" and with "FF", which decodes to None; SOUND_LEVEL with "0005", which
\* the decoder rejects
DoorBatchInputs ==
    ({ DOOR_STATUS, Str(<<"D","O","O","R","_","S","T","A","T","U","S">>), Str(<<"0","X","1","0","1","6">>) }
        \X { <<"0","1","0","0","0","0","0","0">>, <<"0","0","0","0","0","0","0","0">>, <<"0","0","0","0","0","1","0","0">> })
    \cup { << SABBATH_MODE, <<"0","1">> >>, << SABBATH_MODE, <<"F","F">> >>,
           << SOUND_LEVEL, <<"0","0","0","5">> >> }

NextBatch ==
    \/ \E trigger_callbacks \in BOOLEAN : BatchBegin(trigger_callbacks)
    \/ \E entry \in DoorBatchInputs : BatchItem(entry[1], entry[2])
    \/ BatchEnd

SpecBatch == Init /\ [][NextBatch]_vars

----------------------------------------------------------------------------
(* The codec on its own: one decode or encode call of GeAppliance or of     *)
(* ErdSerializer, on arguments drawn from the sets below.                   *)

CodecCodes == {
    APPLIANCE_TYPE, SABBATH_MODE, SOUND_LEVEL, USER_INTERFACE_LOCKED,
    HOT_WATER_SET_TEMP, ICE_MAKER_BUCKET_STATUS, UPPER_OVEN_KITCHEN_TIMER,
    Str(<<"S","A","B","B","A","T","H","_","M","O","D","E">>),
    Str(<<"s","a","b","b","a","t","h","_","m","o","d","e">>),
    Str(<<"0","x","0","0","0","9">>),
    Str(<<"0","X","0","0","0","9">>),
    Str(<<"0","x","0","0","0","a">>),
    Str(<<"0","X","0","0","0","A">>),
    Str(<<"0","x","d","e","a","d">>),
    Str(<<"0","x","D","E","A","D">>) }

\* "", "00", "01", "03", "0A", "0a", "FF", "ff", "F", "0005", "FFFF", "zz"
CodecValues == {
    <<>>, <<"0","0">>, <<"0","1">>, <<"0","3">>, <<"0","A">>, <<"0","a">>,
    <<"F","F">>, <<"f","f">>, <<"F">>, <<"0","0","0","5">>, <<"F","F","F","F">>,
    <<"z","z">> }

CodecPyValues == {
    None, PyBool(TRUE), PyBool(FALSE), PyInt(0), PyInt(350), PyInt(65536), PyInt(-1),
    PyTimedelta(90), PyTimedelta(1500), PyEnum("ErdSoundLevel", "LOW") }

InitCodec ==
    /\ property_cache = EmptyDict
    /\ applied = EmptyDict
    /\ update_functions = <<>>
    /\ update_coroutines = <<>>
    /\ available = FALSE
    /\ pc = "idle"
    /\ batch_used = {}
    /\ batch_before = EmptyDict
    /\ batch_trigger = FALSE
    /\ state_changes = EmptyDict
    /\ \E erd_code \in CodecCodes, erd_value \in CodecValues, value \in CodecPyValues :
            op = Call("input", erd_code, erd_value, value, FALSE)
    /\ ret = Returned(None, EmptyDict)
    /\ calls = <<>>
    /\ old_value = None
    /\ _erd_decoders = ERD_DECODERS
    /\ _erd_encoders = ERD_ENCODERS
    /\ registry = _registry
    /\ InitClient

SerializerDecodeErdValue(erd_code, erd_value) ==
    /\ pc = "idle"
    /\ op' = Call("ErdSerializer.decode_erd_value", erd_code, erd_value, None, FALSE)
    /\ ret' = ReturnedBy(ErdSerializer_decode_erd_value_dispatch(erd_code, erd_value))
    /\ calls' = <<>>
    /\ old_value' = None
    /\ NoBatch
    /\ UNCHANGED <<ClientVars, _erd_decoders, _erd_encoders, registry, property_cache, applied, update_functions, update_coroutines, available>>

SerializerEncodeErdValue(erd_code, value) ==
    /\ pc = "idle"
    /\ op' = Call("ErdSerializer.encode_erd_value", erd_code, <<>>, value, FALSE)
    /\ ret' = ReturnedBy(ErdSerializer_encode_erd_value_dispatch(erd_code, value))
    /\ calls' = <<>>
    /\ old_value' = None
    /\ NoBatch
    /\ UNCHANGED <<ClientVars, _erd_decoders, _erd_encoders, registry, property_cache, applied, update_functions, update_coroutines, available>>

\* translate_erd_code(erd_code); the value returned is the identifier
TranslateErdCode(erd_code) ==
    /\ pc = "idle"
    /\ op' = Call("translate_erd_code", erd_code, <<>>, None, FALSE)
    /\ ret' = Returned(translate_erd_code(erd_code), EmptyDict)
    /\ calls' = <<>>
    /\ old_value' = None
    /\ NoBatch
    /\ UNCHANGED <<ClientVars, _erd_decoders, _erd_encoders, registry, property_cache, applied, update_functions, update_coroutines, available>>

SerializerTranslateErdCode(erd_code) ==
    /\ pc = "idle"
    /\ op' = Call("ErdSerializer.translate_erd_code", erd_code, <<>>, None, FALSE)
    /\ ret' = Returned(ErdSerializer_translate_erd_code(erd_code), EmptyDict)
    /\ calls' = <<>>
    /\ old_value' = None
    /\ NoBatch
    /\ UNCHANGED <<ClientVars, _erd_decoders, _erd_encoders, registry, property_cache, applied, update_functions, update_coroutines, available>>

\* the calls that resolve an identifier
TranslateCalls == {"translate_erd_code", "ErdSerializer.translate_erd_code"}

\* one call on the input drawn by InitCodec; the identifier a resolution
\* returns may be resolved again
NextCodec ==
    \/ /\ op.name = "input"
       /\ \/ DecodeErdValue(op.erd_code, op.erd_value)
          \/ EncodeErdValue(op.erd_code, op.value)
          \/ SerializerDecodeErdValue(op.erd_code, op.erd_value)
          \/ SerializerEncodeErdValue(op.erd_code, op.value)
          \/ TranslateErdCode(op.erd_code)
          \/ SerializerTranslateErdCode(op.erd_code)
    \/ /\ op.name \in TranslateCalls
       /\ \/ TranslateErdCode(ret.value)
          \/ SerializerTranslateErdCode(ret.value)

SpecCodec == InitCodec /\ [][NextCodec]_vars

----------------------------------------------------------------------------
(* The appliance and the serializer together: every operation that reads a  *)
(* converter table, with the updates, the batches and the registrations.    *)

\* (erd_code, erd_value) arguments of the decode calls: a code without an entry
\* in either table, a code with one, and a str that resolves to no code
TableDecodeInputs == {
    << USER_INTERFACE_LOCKED, <<"0","1">> >>,
    << SABBATH_MODE, <<"0","1">> >>,
    << Str(<<"0","x","d","e","a","d">>), <<"0","1">> >> }

\* (erd_code, value) arguments of the encode calls: a code without an encoder,
\* a code with one, and a code whose converter is read-only
TableEncodeInputs == {
    << USER_INTERFACE_LOCKED, PyBool(TRUE) >>,
    << SABBATH_MODE, PyBool(TRUE) >>,
    << DOOR_STATUS, PyBool(TRUE) >> }

NextTables ==
    \/ \E callback \in Callbacks : register_update_callback(callback)
    \/ \E input \in TableDecodeInputs :
            \/ DecodeErdValue(input[1], input[2])
            \/ SerializerDecodeErdValue(input[1], input[2])
    \/ \E input \in TableEncodeInputs :
            \/ EncodeErdValue(input[1], input[2])
            \/ SerializerEncodeErdValue(input[1], input[2])
    \/ \E input \in TableDecodeInputs, trigger_callbacks \in BOOLEAN :
            AsyncUpdateErdValue(input[1], input[2], trigger_callbacks)
    \/ \E trigger_callbacks \in BOOLEAN : BatchBegin(trigger_callbacks)
    \/ \E entry \in TableDecodeInputs : BatchItem(entry[1], entry[2])
    \/ BatchEnd

SpecTables == Init /\ [][NextTables]_vars

----------------------------------------------------------------------------
(* GeWebsocketClient: the appliances of the account, the event handlers and *)
(* the messages of the socket.  Mac addresses are given in upper case, which *)
(* str.upper() leaves as they are.  A message id MAC-setErd-CODE is the     *)
(* triple split("-") makes of it.                                           *)

\* GeAppliance.__init__: a new object; attrs holds the attributes assigned to
\* the object from outside the class
GeAppliance(jid) ==
    [_jid |-> jid, _available |-> FALSE, _property_cache |-> EmptyDict, attrs |-> EmptyDict]

\* the names an attribute lookup finds on every GeAppliance: those the class
\* body defines and those __init__ assigns
GeApplianceNames == {
    "_erd_decoders", "_erd_encoders", "__init__", "_available", "_jid", "_message_id",
    "_property_cache", "_update_coroutines", "_update_functions", "xmpp_client", "jid",
    "register_update_callback", "send_raw_message", "async_send_request",
    "async_request_update", "async_set_available", "async_set_unavailable", "available",
    "appliance_type", "decode_erd_value", "encode_erd_value", "get_erd_value",
    "_async_trigger_update_callbacks", "async_update_erd_value", "async_update_erd_values",
    "async_set_erd_value", "__str__" }

\* appliance.name: the attribute, or AttributeError
getattr(appliance, name) ==
    IF name \in DOMAIN appliance.attrs THEN appliance.attrs[name]
    ELSE IF name \in GeApplianceNames THEN PyValue("attribute", <<>>, <<name>>)
    ELSE Raise("AttributeError")

\* f'{appliance:s}': GeAppliance defines __str__ but no __format__, and
\* object.__format__ rejects every format specification that is not empty
format_s(appliance) ==
    IF "__format__" \in GeApplianceNames \cup DOMAIN appliance.attrs
    THEN PyStr(<<"a">>)
    ELSE Raise("TypeError")

Event(event, mac_addr, changes) ==
    [event |-> event, mac_addr |-> mac_addr, state_changes |-> changes]

\* what a method of the client leaves: the appliances, the value returned (or
\* the exception raised) and the events it passed to async_event
Outcome(apps, value, evs) == [appliances |-> apps, ret |-> value, events |-> evs]

\* GeWebsocketClient.async_event: one task per handler of the event
async_event(handlers, ev) ==
    [i \in 1..Len(handlers[ev.event]) |->
        [callback |-> handlers[ev.event][i], mac_addr |-> ev.mac_addr,
         state_changes |-> ev.state_changes]]

\* the tasks scheduled by a sequence of async_event calls
RECURSIVE Scheduled(_, _)
Scheduled(handlers, evs) ==
    IF evs = <<>> THEN <<>>
    ELSE async_event(handlers, Head(evs)) \o Scheduled(handlers, Tail(evs))

\* a faulty maybe_trigger_appliance_init_event: the event is triggered for
\* every change set that holds APPLIANCE_TYPE
maybe_trigger_appliance_init_event_every_time(apps, mac_addr, changes) ==
    IF APPLIANCE_TYPE \notin DOMAIN changes
    THEN Outcome(apps, None, <<>>)
    ELSE Outcome(apps, None, <<Event(EVENT_APPLIANCE_INITIAL_UPDATE, mac_addr, changes)>>)

\* GeBaseClient.maybe_trigger_appliance_init_event; the event carries the
\* change set it was triggered for
maybe_trigger_appliance_init_event(apps, mac_addr, changes) ==
    IF APPLIANCE_TYPE \notin DOMAIN changes
    THEN Outcome(apps, None, <<>>)
    ELSE LET initialized == getattr(apps[mac_addr], "initialized")
         IN  IF IsRaise(initialized) THEN Outcome(apps, initialized, <<>>)
             ELSE IF Truthy(initialized) THEN Outcome(apps, None, <<>>)
             ELSE IF IsRaise(format_s(apps[mac_addr]))
             THEN Outcome(apps, format_s(apps[mac_addr]), <<>>)
             ELSE Outcome(
                    [apps EXCEPT ![mac_addr].attrs = DictSet(@, "initialized", PyBool(TRUE))],
                    None,
                    <<Event(EVENT_APPLIANCE_INITIAL_UPDATE, mac_addr, changes)>>)

\* GeWebsocketClient.add_appliance: set_available and mac_addr are looked up on
\* the new GeAppliance; the appliance is stored between the two
add_appliance(apps, mac_addr, set_online) ==
    IF mac_addr \in DOMAIN apps THEN Outcome(apps, Raise("RuntimeError"), <<>>)
    ELSE LET new_appliance == GeAppliance(mac_addr)
         IN  IF set_online /\ IsRaise(getattr(new_appliance, "set_available"))
             THEN Outcome(apps, getattr(new_appliance, "set_available"), <<>>)
             ELSE Outcome(
                    DictSet(apps, mac_addr, new_appliance),
                    IF IsRaise(getattr(new_appliance, "mac_addr"))
                    THEN getattr(new_appliance, "mac_addr") ELSE None,
                    <<Event(EVENT_ADD_APPLIANCE, mac_addr, EmptyDict)>>)

\* GeWebsocketClient._update_appliance_state: an unknown appliance is skipped;
\* update_erd_values is looked up on the GeAppliance, which defines no such
\* method, so that the lines after the call are not reached
_update_appliance_state(apps, mac_addr, updates) ==
    IF mac_addr \notin DOMAIN apps THEN Outcome(apps, None, <<>>)
    ELSE Outcome(apps, getattr(apps[mac_addr], "update_erd_values"), <<>>)

\* GeWebsocketClient._process_pending_erd
_process_pending_erd(apps, pending, mac_addr, raw_erd_code) ==
    IF <<mac_addr, raw_erd_code>> \notin DOMAIN pending THEN Outcome(apps, None, <<>>)
    ELSE LET updated == _update_appliance_state(apps, mac_addr,
                            DictSet(EmptyDict, raw_erd_code, pending[<<mac_addr, raw_erd_code>>]))
         IN  IF updated.ret = Raise("KeyError") THEN Outcome(apps, None, <<>>) ELSE updated

\* GeWebsocketClient.process_appliance_list, the loop over the items
RECURSIVE add_items(_, _)
add_items(apps, items) ==
    IF items = <<>> THEN Outcome(apps, None, <<>>)
    ELSE IF Head(items).mac_addr \in DOMAIN apps THEN add_items(apps, Tail(items))
    ELSE LET added == add_appliance(apps, Head(items).mac_addr, Head(items).online)
             rest == add_items(added.appliances, Tail(items))
         IN  IF IsRaise(added.ret) THEN added
             ELSE Outcome(rest.appliances, rest.ret, added.events \o rest.events)

\* GeWebsocketClient.process_appliance_list
process_appliance_list(apps, items) ==
    LET added == add_items(apps, items)
    IN  IF IsRaise(added.ret) THEN added
        ELSE Outcome(added.appliances, None,
                     Append(added.events, Event(EVENT_GOT_APPLIANCE_LIST, "", EmptyDict)))

\* GeWebsocketClient.process_message
process_message(apps, pending, message) ==
    CASE message.kind = "publish#erd" ->
            _update_appliance_state(apps, message.mac_addr,
                DictSet(EmptyDict, message.erd, message.value))
      [] message.kind = "websocket#api" /\ message.id = "List-appliances" ->
            process_appliance_list(apps, message.items)
      [] message.kind = "websocket#api" /\ message.id = "setErd" /\ message.code = 200 ->
            _process_pending_erd(apps, pending, message.mac_addr, message.erd)
      [] message.kind = "websocket#api" /\ message.id = "allErd" /\ message.code = 200 ->
            _update_appliance_state(apps, message.mac_addr,
                DictSet(EmptyDict, message.erd, message.value))
      [] OTHER -> Outcome(apps, None, <<>>)

\* str.replace("0X", "0x")
RECURSIVE replace_0X(_)
replace_0X(s) ==
    IF Len(s) < 2 THEN s
    ELSE IF s[1] = "0" /\ s[2] = "X" THEN <<"0", "x">> \o replace_0X(SubSeq(s, 3, Len(s)))
    ELSE <<s[1]>> \o replace_0X(Tail(s))

\* GeWebsocketClient.async_set_erd_value, the key of the request
raw_erd_code_of(erd_code) ==
    replace_0X(upper(IF erd_code.isErd THEN WireValue(erd_code) ELSE erd_code.s))

\* what every call of the client does with its outcome: the events it passed
\* to async_event are recorded and their handlers scheduled
ClientCall(req, outcome) ==
    /\ pc = "idle"
    /\ appliances' = outcome.appliances
    /\ events' = events \o outcome.events
    /\ tasks' = tasks \o Scheduled(_event_handlers, outcome.events)
    /\ request' = req
    /\ op' = Call(req.name, NoCode, <<>>, None, FALSE)
    /\ ret' = Returned(outcome.ret, EmptyDict)
    /\ calls' = <<>>
    /\ old_value' = None
    /\ NoBatch
    /\ UNCHANGED <<_erd_decoders, _erd_encoders, registry, property_cache, applied,
                   update_functions, update_coroutines, available>>

AddAppliance(mac_addr, set_online) ==
    /\ Len(events) < MaxEvents
    /\ ClientCall(Request("add_appliance", Arguments(mac_addr, <<>>, <<>>)),
                  add_appliance(appliances, mac_addr, set_online))
    /\ UNCHANGED <<_pending_erds, _event_handlers, sent>>

\* the handlers the application adds besides maybe_trigger_appliance_init_event
Added ==
    Len(_event_handlers[EVENT_APPLIANCE_STATE_CHANGE]) - 1
        + Len(_event_handlers[EVENT_APPLIANCE_INITIAL_UPDATE])

\* GeWebsocketClient.add_event_handler
AddEventHandler(event, callback, disposable) ==
    /\ Added < MaxHandlers
    /\ _event_handlers' =
            IF disposable THEN _event_handlers
            ELSE [_event_handlers EXCEPT ![event] = Append(@, callback)]
    /\ ClientCall(Request("add_event_handler", Arguments("", <<>>, <<>>)),
                  Outcome(appliances,
                          IF disposable THEN Raise("NotImplementedError") ELSE None, <<>>))
    /\ UNCHANGED <<_pending_erds, sent>>

\* async_event(EVENT_APPLIANCE_STATE_CHANGE, [appliance, state_changes]), called
\* by the application or by a transport for an appliance of the client
AsyncEvent(mac_addr, changes) ==
    /\ mac_addr \in DOMAIN appliances
    /\ Len(events) < MaxEvents
    /\ ClientCall(Request("async_event", Arguments(mac_addr, <<>>, <<>>)),
                  Outcome(appliances, None,
                          <<Event(EVENT_APPLIANCE_STATE_CHANGE, mac_addr, changes)>>))
    /\ UNCHANGED <<_pending_erds, _event_handlers, sent>>

\* the event loop runs the task scheduled first; a callback of the
\* application leaves the client as it is
RunTask ==
    /\ pc = "idle"
    /\ tasks # <<>>
    /\ LET task == Head(tasks)
           outcome ==
                IF task.callback = "maybe_trigger_appliance_init_event"
                THEN maybe_trigger_appliance_init_event(
                        appliances, task.mac_addr, task.state_changes)
                ELSE Outcome(appliances, None, <<>>)
       IN  /\ appliances' = outcome.appliances
           /\ events' = events \o outcome.events
           /\ tasks' = Tail(tasks) \o Scheduled(_event_handlers, outcome.events)
           /\ request' = Request(task.callback, Arguments(task.mac_addr, <<>>, <<>>))
           /\ op' = Call(task.callback, NoCode, <<>>, None, FALSE)
           /\ ret' = Returned(outcome.ret, EmptyDict)
    /\ calls' = <<>>
    /\ old_value' = None
    /\ NoBatch
    /\ UNCHANGED <<_pending_erds, _event_handlers, sent, _erd_decoders, _erd_encoders,
                   registry, property_cache, applied, update_functions, update_coroutines,
                   available>>

\* a client that writes the value into the cache as soon as it is asked to
\* set it, without waiting for the response
AsyncSetErdValue_applied_at_once(mac_addr, erd_code, erd_value) ==
    /\ mac_addr \in DOMAIN appliances
    /\ LET raw_erd_code == raw_erd_code_of(erd_code)
           appliance == appliances[mac_addr]
           written == [appliance EXCEPT !._property_cache =
                          DictSet(@, translate_erd_code(Str(raw_erd_code)),
                                  decode_erd_value(Str(raw_erd_code), erd_value))]
       IN  /\ _pending_erds' = DictSet(_pending_erds, <<mac_addr, raw_erd_code>>, erd_value)
           /\ sent' = sent \cup { <<mac_addr, raw_erd_code, erd_value>> }
           /\ ClientCall(Request("async_set_erd_value",
                                 Arguments(mac_addr, raw_erd_code, erd_value)),
                         Outcome([appliances EXCEPT ![mac_addr] = written], None, <<>>))
    /\ UNCHANGED _event_handlers

\* GeWebsocketClient.async_set_erd_value: mac_addr is looked up on the
\* GeAppliance before the value is stored as pending
AsyncSetErdValue(mac_addr, erd_code, erd_value) ==
    /\ mac_addr \in DOMAIN appliances
    /\ LET raw_erd_code == raw_erd_code_of(erd_code)
           looked_up == getattr(appliances[mac_addr], "mac_addr")
       IN  /\ _pending_erds' =
                IF IsRaise(looked_up) THEN _pending_erds
                ELSE DictSet(_pending_erds, <<mac_addr, raw_erd_code>>, erd_value)
           /\ sent' = sent \cup { <<mac_addr, raw_erd_code, erd_value>> }
           /\ ClientCall(Request("async_set_erd_value",
                                 Arguments(mac_addr, raw_erd_code, erd_value)),
                         Outcome(appliances,
                                 IF IsRaise(looked_up) THEN looked_up ELSE None, <<>>))
    /\ UNCHANGED _event_handlers

ProcessMessage(message) ==
    /\ Len(events) < MaxEvents
    /\ ClientCall(Request("process_message", message),
                  process_message(appliances, _pending_erds, message))
    /\ UNCHANGED <<_pending_erds, _event_handlers, sent>>

Macs == { "AA", "BB" }

\* the change sets of the state-change events: with and without APPLIANCE_TYPE
ChangeSets == {
    DictSet(EmptyDict, APPLIANCE_TYPE, PyEnum("ErdApplianceType", "OVEN")),
    DictSet(EmptyDict, SABBATH_MODE, PyBool(TRUE)),
    DictSet(DictSet(EmptyDict, SABBATH_MODE, PyBool(TRUE)),
            APPLIANCE_TYPE, PyEnum("ErdApplianceType", "OVEN")) }

\* the handlers of the example: detect_appliance_type and log_state_change
Handlers == {
    << EVENT_APPLIANCE_INITIAL_UPDATE, "detect_appliance_type" >>,
    << EVENT_APPLIANCE_STATE_CHANGE, "log_state_change" >> }

\* the messages of the socket: without a kind, an update published for 0x0009,
\* the responses 200 and 400 to a setErd of 0x0009, the response to allErd, and
\* the appliance lists, with AA off line, AA on line, and both off line
Messages ==
    { Message("", "", 0, "", <<>>, <<>>, <<>>) } \cup
    { Message("publish#erd", "", 0, mac_addr, <<"0","x","0","0","0","9">>, <<"0","1">>, <<>>) :
        mac_addr \in Macs } \cup
    { Message("websocket#api", "setErd", code, mac_addr, <<"0","x","0","0","0","9">>, <<>>, <<>>) :
        code \in {200, 400}, mac_addr \in Macs } \cup
    { Message("websocket#api", "allErd", 200, mac_addr, <<"0","x","0","0","0","9">>, <<"0","1">>, <<>>) :
        mac_addr \in Macs } \cup
    { Message("websocket#api", "List-appliances", 200, "", <<>>, <<>>, items) :
        items \in { << [mac_addr |-> "AA", online |-> FALSE] >>,
                    << [mac_addr |-> "AA", online |-> TRUE] >>,
                    << [mac_addr |-> "AA", online |-> FALSE],
                       [mac_addr |-> "BB", online |-> FALSE] >> } }

NextClient ==
    \/ \E mac_addr \in Macs, set_online \in BOOLEAN : AddAppliance(mac_addr, set_online)
    \/ \E handler \in Handlers, disposable \in BOOLEAN :
            AddEventHandler(handler[1], handler[2], disposable)
    \/ \E mac_addr \in Macs, changes \in ChangeSets : AsyncEvent(mac_addr, changes)
    \/ RunTask
    \/ \E mac_addr \in Macs : AsyncSetErdValue(mac_addr, SABBATH_MODE, <<"0","1">>)
    \/ \E message \in Messages : ProcessMessage(message)

SpecClient == Init /\ [][NextClient]_vars

----------------------------------------------------------------------------
(* The converters on their own: one raw string or one value is drawn, and   *)
(* one converter, or one encoder followed by its decoder, is applied to it. *)

\* the integers given to encode_signed_byte
SignedByteInputs == { PyInt(n) : n \in (0 - MaxByteInput) .. MaxByteInput }

\* the durations given to _encode_timespan, in whole minutes, and None
TimespanInputs ==
    { PyTimedelta(m) : m \in {0, 1, 59, 90, 1439, 1440, 1441, 1500, 2880, 65534} }
        \cup {None}

\* the settings given to _encode_oven_cook_mode: every cook mode of
\* OVEN_COOK_MODE_MAP and one that is not in it, with temperatures that fit in
\* two bytes and one that does not
CookSettingInputs ==
    { OvenCookSetting(cook_mode, temperature, None) :
        cook_mode \in { OVEN_COOK_MODE_MAP[m] : m \in DOMAIN OVEN_COOK_MODE_MAP }
                        \cup { OvenCookMode("BAKE", TRUE, TRUE, TRUE, TRUE, TRUE) },
        temperature \in {0, 350, 65535, 65536} }

\* the values given to the encoders
ConverterValues == SignedByteInputs \cup TimespanInputs \cup CookSettingInputs

\* raw strings for the decoders of enums: "00" to "04", "FF", "ff", "0A",
\* "0005", "0001", "00FF", "0009", "zz"
EnumRaws == {
    <<"0","0">>, <<"0","1">>, <<"0","2">>, <<"0","3">>, <<"0","4">>, <<"F","F">>,
    <<"f","f">>, <<"0","A">>, <<"0","0","0","5">>, <<"0","0","0","1">>,
    <<"0","0","F","F">>, <<"0","0","0","9">>, <<"z","z">> }

\* every ice-bucket bitfield: "00" to "0F"
IceBucketRaws == { <<"0", UpperHex[n + 1]>> : n \in 0 .. 15 }

\* the four door fields, each "00", "01", "FF" or the unrecognized "zz"
DoorRaws ==
    LET DoorBytes == { <<"0","0">>, <<"0","1">>, <<"F","F">>, <<"z","z">> }
    IN  { a \o b \o c \o d : a \in DoorBytes, b \in DoorBytes, c \in DoorBytes, d \in DoorBytes }

\* the raw strings given to the decoders
ConverterRaws == EnumRaws \cup IceBucketRaws \cup DoorRaws

\* the decoders of erd_utils and the converters of the erd package that are
\* called on the raw strings
RawDecoders == {
    "_decode_appliance_type", "_decode_measurement_unit", "_decode_sound_level",
    "_decode_clock_format", "_decode_end_tone", "_decode_filter_status",
    "_decode_ice_bucket_status", "_decode_fridge_door" }
RawConverters == {
    "ErdApplianceTypeConverter", "ErdMeasurementUnitsConverter", "ErdSoundLevelConverter",
    "ErdClockFormatConverter", "ErdEndToneConverter", "ErdFilterStatusConverter",
    "FridgeIceBucketStatusConverter", "FridgeDoorStatusConverter" }

ConverterInputs ==
    { [erd_value |-> <<>>, value |-> v] : v \in ConverterValues } \cup
    { [erd_value |-> r, value |-> None] : r \in ConverterRaws }

InitConverters ==
    /\ property_cache = EmptyDict
    /\ applied = EmptyDict
    /\ update_functions = <<>>
    /\ update_coroutines = <<>>
    /\ available = FALSE
    /\ pc = "idle"
    /\ batch_used = {}
    /\ batch_before = EmptyDict
    /\ batch_trigger = FALSE
    /\ state_changes = EmptyDict
    /\ \E x \in ConverterInputs : op = Call("input", NoCode, x.erd_value, x.value, FALSE)
    /\ ret = Returned(None, EmptyDict)
    /\ calls = <<>>
    /\ old_value = None
    /\ _erd_decoders = ERD_DECODERS
    /\ _erd_encoders = ERD_ENCODERS
    /\ registry = _registry
    /\ InitClient

\* the call made, the raw string passed between encoder and decoder, the value
\* given and the value returned: the decoder is not called when the encoder raises
RoundTrip(name, value, encoded, decoded) ==
    /\ pc = "idle"
    /\ op' = Call(name, NoCode, IF IsRaise(encoded) THEN <<>> ELSE encoded.strs, value, FALSE)
    /\ ret' = Returned(IF IsRaise(encoded) THEN encoded ELSE decoded, EmptyDict)
    /\ calls' = <<>>
    /\ old_value' = None
    /\ NoBatch
    /\ UNCHANGED <<ClientVars, _erd_decoders, _erd_encoders, registry, property_cache, applied, update_functions, update_coroutines, available>>

\* test_signed_byte, one iteration: decode_signed_byte(encode_signed_byte(i))
SignedByteRoundTrip(i) ==
    RoundTrip("decode_signed_byte(encode_signed_byte)", i,
              encode_signed_byte(i),
              IF IsRaise(encode_signed_byte(i)) THEN None
              ELSE decode_signed_byte(encode_signed_byte(i).strs))

\* the same through ErdSignedByteConverter
SignedByteConverterRoundTrip(i) ==
    RoundTrip("ErdSignedByteConverter.erd_decode(erd_encode)", i,
              ErdSignedByteConverter_erd_encode(i),
              IF IsRaise(ErdSignedByteConverter_erd_encode(i)) THEN None
              ELSE ErdSignedByteConverter_erd_decode(ErdSignedByteConverter_erd_encode(i).strs))

\* _decode_timespan(_encode_timespan(value))
TimespanRoundTrip(value) ==
    RoundTrip("_decode_timespan(_encode_timespan)", value,
              _encode_timespan(value),
              IF IsRaise(_encode_timespan(value)) THEN None
              ELSE _decode_timespan(_encode_timespan(value).strs))

\* the same through ErdTimeSpanConverter
TimeSpanConverterRoundTrip(value) ==
    RoundTrip("ErdTimeSpanConverter.erd_decode(erd_encode)", value,
              ErdTimeSpanConverter_erd_encode(value),
              IF IsRaise(ErdTimeSpanConverter_erd_encode(value)) THEN None
              ELSE ErdTimeSpanConverter_erd_decode(ErdTimeSpanConverter_erd_encode(value).strs))

\* _decode_oven_cook_mode(_encode_oven_cook_mode(cook_setting))
OvenCookModeRoundTrip(cook_setting) ==
    RoundTrip("_decode_oven_cook_mode(_encode_oven_cook_mode)", cook_setting,
              _encode_oven_cook_mode(cook_setting),
              IF IsRaise(_encode_oven_cook_mode(cook_setting)) THEN None
              ELSE _decode_oven_cook_mode(_encode_oven_cook_mode(cook_setting).strs))

\* the same through OvenCookModeConverter
OvenCookModeConverterRoundTrip(cook_setting) ==
    RoundTrip("OvenCookModeConverter.erd_decode(erd_encode)", cook_setting,
              OvenCookModeConverter_erd_encode(cook_setting),
              IF IsRaise(OvenCookModeConverter_erd_encode(cook_setting)) THEN None
              ELSE OvenCookModeConverter_erd_decode(
                        OvenCookModeConverter_erd_encode(cook_setting).strs))

\* a decoder of erd_utils called on a raw string
Decode(f, value) ==
    /\ pc = "idle"
    /\ op' = Call(f, NoCode, value, None, FALSE)
    /\ ret' = Returned(CallDecoder(f, value), EmptyDict)
    /\ calls' = <<>>
    /\ old_value' = None
    /\ NoBatch
    /\ UNCHANGED <<ClientVars, _erd_decoders, _erd_encoders, registry, property_cache, applied, update_functions, update_coroutines, available>>

\* converter.erd_decode called on a raw string; op.name is the converter's class
ConverterDecode(converter, value) ==
    /\ pc = "idle"
    /\ op' = Call(converter, NoCode, value, None, FALSE)
    /\ ret' = Returned(erd_decode(converter, value), EmptyDict)
    /\ calls' = <<>>
    /\ old_value' = None
    /\ NoBatch
    /\ UNCHANGED <<ClientVars, _erd_decoders, _erd_encoders, registry, property_cache, applied, update_functions, update_coroutines, available>>

NextConverters ==
    /\ op.name = "input"
    /\ \/ /\ op.value \in SignedByteInputs
          /\ \/ SignedByteRoundTrip(op.value)
             \/ SignedByteConverterRoundTrip(op.value)
       \/ /\ op.value \in TimespanInputs
          /\ op.erd_value = <<>>
          /\ \/ TimespanRoundTrip(op.value)
             \/ TimeSpanConverterRoundTrip(op.value)
       \/ /\ op.value \in CookSettingInputs
          /\ \/ OvenCookModeRoundTrip(op.value)
             \/ OvenCookModeConverterRoundTrip(op.value)
       \/ /\ op.value = None
          /\ op.erd_value \in EnumRaws \cup IceBucketRaws
          /\ \/ \E f \in RawDecoders : Decode(f, op.erd_value)
             \/ \E converter \in RawConverters : ConverterDecode(converter, op.erd_value)
       \/ /\ op.value = None
          /\ op.erd_value \in DoorRaws
          /\ \/ Decode("_decode_fridge_door", op.erd_value)
             \/ ConverterDecode("FridgeDoorStatusConverter", op.erd_value)

SpecConverters == InitConverters /\ [][NextConverters]_vars

----------------------------------------------------------------------------
(* The oven state, boolean, integer and cook-mode codecs on their own: one  *)
(* raw string or one value is drawn and one function is applied to it.      *)

\* the raw oven states: every byte, "00" to "FF"
OvenStateRaws == { ToHex(n, 2) : n \in 0 .. 255 }

\* raw booleans: "00", "01", "02", "10", "7F", "0A", "FF" and "ff"
BoolRaws == {
    <<"0","0">>, <<"0","1">>, <<"0","2">>, <<"1","0">>, <<"7","F">>, <<"0","A">>,
    <<"F","F">>, <<"f","f">> }

\* ten bytes of available cook modes: the bytes of the table (2, 5, 6, 7 and 9)
\* with no bit, each bit of the table, every bit and every bit but those of
\* the table; the other bytes all 00 or all FF
FullCookModeRaws ==
    { ToHex(o, 2) \o ToHex(o, 2) \o ToHex(b2, 2) \o ToHex(o, 2) \o ToHex(o, 2) \o
      ToHex(b5, 2) \o ToHex(b6, 2) \o ToHex(b7, 2) \o ToHex(o, 2) \o ToHex(b9, 2) :
        o \in {0, 255}, b2 \in {0, 1, 2, 4, 8, 16, 31, 224, 255},
        b5 \in {0, 16, 239}, b6 \in {0, 8, 247}, b7 \in {0, 4, 251}, b9 \in {0, 2, 253} }

\* one to nine bytes and eleven bytes, every bit set
OtherCookModeRaws == { [i \in 1 .. 2 * k |-> "F"] : k \in (1 .. 9) \cup {11} }

CookModeRaws == FullCookModeRaws \cup OtherCookModeRaws

\* the integers given to the integer encoders: both ends of the two-byte
\* range, the numbers next to them and some in between and far outside
IntInputs ==
    { PyInt(n) : n \in {0 - 65536, 0 - 256, 0 - 1, 0, 1, 15, 16, 255, 256, 4095, 4096,
                         32767, 32768, 65534, 65535, 65536, 65537, 131071} }

\* the values given to the boolean encoders
BoolValues == { PyBool(TRUE), PyBool(FALSE) }

PrimitiveInputs ==
    { [erd_value |-> r, value |-> None] : r \in OvenStateRaws \cup BoolRaws \cup CookModeRaws } \cup
    { [erd_value |-> <<>>, value |-> v] : v \in BoolValues \cup {None} \cup IntInputs }

InitPrimitives ==
    /\ property_cache = EmptyDict
    /\ applied = EmptyDict
    /\ update_functions = <<>>
    /\ update_coroutines = <<>>
    /\ available = FALSE
    /\ pc = "idle"
    /\ batch_used = {}
    /\ batch_before = EmptyDict
    /\ batch_trigger = FALSE
    /\ state_changes = EmptyDict
    /\ \E x \in PrimitiveInputs : op = Call("input", NoCode, x.erd_value, x.value, FALSE)
    /\ ret = Returned(None, EmptyDict)
    /\ calls = <<>>
    /\ old_value = None
    /\ _erd_decoders = ERD_DECODERS
    /\ _erd_encoders = ERD_ENCODERS
    /\ registry = _registry
    /\ InitClient

\* a module-level helper of converters/primitives called on a raw string or
\* on a value
Helper(name, erd_value, value, returned) ==
    /\ pc = "idle"
    /\ op' = Call(name, NoCode, erd_value, value, FALSE)
    /\ ret' = Returned(returned, EmptyDict)
    /\ calls' = <<>>
    /\ old_value' = None
    /\ NoBatch
    /\ UNCHANGED <<ClientVars, _erd_decoders, _erd_encoders, registry, property_cache,
                   applied, update_functions, update_coroutines, available>>

\* decode_erd_int(_encode_erd_int(value))
IntRoundTrip(value) ==
    RoundTrip("decode_erd_int(_encode_erd_int)", value,
              _encode_erd_int(value),
              IF IsRaise(_encode_erd_int(value)) THEN None
              ELSE decode_erd_int(_encode_erd_int(value).strs))

\* the same through ErdIntConverter
IntConverterRoundTrip(value) ==
    RoundTrip("ErdIntConverter.erd_decode(erd_encode)", value,
              ErdIntConverter_erd_encode(value),
              IF IsRaise(ErdIntConverter_erd_encode(value)) THEN None
              ELSE ErdIntConverter_erd_decode(ErdIntConverter_erd_encode(value).strs))

NextPrimitives ==
    /\ op.name = "input"
    /\ \/ /\ op.value = None
          /\ op.erd_value \in OvenStateRaws
          /\ \/ Decode("_decode_oven_state", op.erd_value)
             \/ ConverterDecode("ErdOvenStateConverter", op.erd_value)
       \/ /\ op.value = None
          /\ op.erd_value \in BoolRaws
          /\ \/ Decode("_decode_erd_bool", op.erd_value)
             \/ ConverterDecode("ErdBoolConverter", op.erd_value)
             \/ Helper("erd_decode_bool", op.erd_value, None, erd_decode_bool(op.erd_value))
       \/ /\ op.erd_value = <<>>
          /\ op.value \in BoolValues \cup {None}
          /\ \/ Helper("_encode_erd_bool", <<>>, op.value, _encode_erd_bool(op.value))
             \/ Helper("ErdBoolConverter.erd_encode", <<>>, op.value,
                       ErdBoolConverter_erd_encode(op.value))
             \/ Helper("erd_encode_bool", <<>>, op.value, erd_encode_bool(op.value))
       \/ /\ op.value = None
          /\ op.erd_value \in CookModeRaws \cup {<<>>}
          /\ \/ Decode("_decode_cook_modes", op.erd_value)
             \/ ConverterDecode("ErdAvailableCookModeConverter", op.erd_value)
       \/ /\ op.value \in IntInputs
          /\ \/ IntRoundTrip(op.value)
             \/ IntConverterRoundTrip(op.value)

SpecPrimitives == InitPrimitives /\ [][NextPrimitives]_vars

----------------------------------------------------------------------------
(* Properties of the state cache, checked under Spec *)

\* the resolved code and the decoded value of the update the step op -> op' makes
UpdateStep == op'.name = "async_update_erd_value"
UpdateKey == translate_erd_code(op'.erd_code)
UpdateValue == decode_erd_value(op'.erd_code, op'.erd_value)

\* C1, as stated: on a cache with no entry for the code, the first
\* async_update_erd_value(code, raw) that returns returns True, for every code
\* and every raw value, and the same call made again right after it returns
\* False.
C1_first_update_returns_true ==
    [][ /\ (UpdateStep /\ UpdateKey \notin DOMAIN property_cache /\ ~IsRaise(ret'.value))
            => ret'.value = PyBool(TRUE)
        /\ (UpdateStep /\ op.name = "async_update_erd_value" /\ ret.value = PyBool(TRUE)
                /\ op'.erd_code = op.erd_code /\ op'.erd_value = op.erd_value)
            => ret'.value = PyBool(FALSE) ]_vars

\* C1, amended: on a cache with no entry for the code, the first
\* async_update_erd_value(code, raw) returns True when raw decodes to a value
\* that is not None, returns False when raw decodes to None (the empty string,
\* "FF" for a boolean) and raises when the decoder rejects raw; a call that
\* returned True, made again right after with the same code and raw value,
\* returns False.
C1_first_update_of_non_null_returns_true ==
    [][ /\ (UpdateStep /\ UpdateKey \notin DOMAIN property_cache)
            => ret'.value = IF IsRaise(UpdateValue) THEN UpdateValue
                            ELSE PyBool(~IsNone(UpdateValue))
        /\ (UpdateStep /\ op.name = "async_update_erd_value" /\ ret.value = PyBool(TRUE)
                /\ op'.erd_code = op.erd_code /\ op'.erd_value = op.erd_value)
            => ret'.value = PyBool(FALSE) ]_vars

\* the second of two equal updates of a code the cache did not hold has
\* returned False after the first returned True
C1_witness ==
    /\ op.name = "async_update_erd_value"
    /\ op.erd_code = Str(<<"0","X","0","0","0","9">>)
    /\ op.erd_value = <<"0","1">>
    /\ ret.value = PyBool(FALSE)
    /\ old_value = PyBool(TRUE)
    /\ DOMAIN property_cache = {SABBATH_MODE}

\* C2: async_update_erd_value returns True exactly when the value cached for
\* the resolved code before the call (None when there is no entry) and the
\* decoded value differ in null-ness, or are both not None and unequal.
C2_changed_iff_values_differ ==
    [][ (UpdateStep /\ ~IsRaise(ret'.value)) =>
            LET o == IF UpdateKey \in DOMAIN property_cache
                     THEN property_cache[UpdateKey] ELSE None
                n == UpdateValue
            IN  ret'.value = PyBool(\/ (o = None) # (n = None)
                                    \/ (o # None /\ n # None /\ o # n)) ]_vars

\* an update has replaced a value that was not None by a different value that
\* is not None, and returned True
C2_witness ==
    /\ op.name = "async_update_erd_value"
    /\ ret.value = PyBool(TRUE)
    /\ old_value # None
    /\ translate_erd_code(op.erd_code) \in DOMAIN property_cache
    /\ property_cache[translate_erd_code(op.erd_code)] # None
    /\ property_cache[translate_erd_code(op.erd_code)] # old_value

\* C3: the cache holds an entry for exactly the codes an update was applied
\* to, and each entry is the decode of the raw value most recently applied for
\* its code, by a single update or by a batch, reported as changed or not.
C3_cache_is_latest_decode ==
    /\ DOMAIN property_cache = DOMAIN applied
    /\ \A code \in DOMAIN property_cache :
            property_cache[code] = decode_erd_value(code, applied[code])

\* an update reported as unchanged has been applied to a code not held
\* before, and the entry is there
C3_witness ==
    /\ op.name = "async_update_erd_value"
    /\ ret.value = PyBool(FALSE)
    /\ op.erd_value = <<"F","F">>
    /\ old_value = None
    /\ DOMAIN property_cache = {SABBATH_MODE}
    /\ property_cache[SABBATH_MODE] = None
    /\ applied[SABBATH_MODE] = <<"F","F">>

\* the identifier forms of a known code: the constant, its canonical name and
\* its wire value in lower and in upper case
IdentifierForms(e) ==
    { Member(e.name), Str(e.name), Str(e.value), Str(upper(e.value)) }

C5_entries_never_removed ==
    [][ DOMAIN property_cache \subseteq DOMAIN property_cache' ]_vars

\* an entry whose value was not None has been updated to None and is still
\* there
C5_witness ==
    /\ op.name = "async_update_erd_value"
    /\ old_value # None
    /\ translate_erd_code(op.erd_code) \in DOMAIN property_cache
    /\ property_cache[translate_erd_code(op.erd_code)] = None

\* async_update_erd_values has returned its dict: batch_used holds the keys of
\* the batch and batch_before the cache as the batch found it
BatchReturned ==
    pc = "idle" /\ op.name = "async_update_erd_values" /\ ret.value.kind = "dict"

\* the value of a code in a cache, None when it has no entry
CachedValue(cache, code) == IF code \in DOMAIN cache THEN cache[code] ELSE None

\* the codes the keys of the batch resolve to
BatchResolved == { translate_erd_code(k) : k \in batch_used }

\* no two keys of the batch resolve to the same code
BatchKeysDistinct ==
    \A k1, k2 \in batch_used : translate_erd_code(k1) = translate_erd_code(k2) => k1 = k2

\* C6, as stated: the map async_update_erd_values returns contains a code
\* exactly when the code's value after the batch differs from the value cached
\* for it before the batch (None when it had no entry), and maps it to the
\* value now in the cache.
C6_map_is_net_change ==
    BatchReturned =>
        \A code \in DOMAIN property_cache \cup DOMAIN ret.dict :
            /\ code \in DOMAIN ret.dict <=>
                    CachedValue(property_cache, code) # CachedValue(batch_before, code)
            /\ code \in DOMAIN ret.dict =>
                    ret.dict[code] = CachedValue(property_cache, code)

\* C6, amended: the map async_update_erd_values returns holds codes the keys of
\* the batch resolve to, each mapped to the value now in the cache; it contains
\* every code whose value after the batch differs from the value cached for
\* it before the batch; and when no two keys of the batch resolve to the same
\* code it contains no other code.  (When two keys resolve to one code, the
\* code is in the map if either entry changed its value, also when the second
\* entry has set it back to what it was before the batch.)
C6_map_is_change_per_entry ==
    BatchReturned =>
        /\ DOMAIN ret.dict \subseteq BatchResolved \cap DOMAIN property_cache
        /\ \A code \in DOMAIN ret.dict : ret.dict[code] = property_cache[code]
        /\ \A code \in DOMAIN property_cache :
                CachedValue(property_cache, code) # CachedValue(batch_before, code)
                    => code \in DOMAIN ret.dict
        /\ BatchKeysDistinct =>
                \A code \in DOMAIN ret.dict :
                    property_cache[code] # CachedValue(batch_before, code)

\* a batch of two keys for two codes has returned a map with the one code
\* whose value changed
C6_witness ==
    /\ BatchReturned
    /\ BatchKeysDistinct
    /\ Cardinality(batch_used) = 2
    /\ DOMAIN ret.dict = {SABBATH_MODE}
    /\ ret.dict[SABBATH_MODE] = PyBool(TRUE)
    /\ Str(<<"0","x","d","e","a","d">>) \in DOMAIN batch_before

\* the registrations, functions first, and the number of calls a sequence of
\* calls makes to a callback
Registered == update_functions \o update_coroutines
CallsTo(cs, callback) == Cardinality({ i \in 1..Len(cs) : cs[i].callback = callback })
RegistrationsOf(callback) ==
    Cardinality({ i \in 1..Len(Registered) : Registered[i] = callback })

\* cs calls every registered callback once per registration, each time with
\* the dict changes, and calls nothing else
OneCycle(cs, changes) ==
    /\ Len(cs) = Len(Registered)
    /\ \A callback \in Callbacks : CallsTo(cs, callback) = RegistrationsOf(callback)
    /\ \A i \in 1..Len(cs) : cs[i].state_changes = changes

----------------------------------------------------------------------------
(* Properties of a batch on a fresh appliance, checked under SpecBatch *)

\* a batch of the one entry (k, v) has returned, on a cache that was empty when
\* the batch began
FreshBatchOf(k, v) ==
    /\ BatchReturned
    /\ batch_before = EmptyDict
    /\ batch_used = {k}
    /\ applied[translate_erd_code(k)] = v

\* C20: on an appliance without cached state, async_update_erd_values with a
\* batch of one entry whose raw value decodes to a value other than None
\* returns a map with exactly one entry, the resolved code mapped to the decoded
\* value; for DOOR_STATUS with "01000000" the status of the value is
\* "Fridge Open".
C20_fresh_batch_of_one ==
    \A entry \in DoorBatchInputs :
        (/\ FreshBatchOf(entry[1], entry[2])
         /\ ~IsRaise(decode_erd_value(entry[1], entry[2]))
         /\ decode_erd_value(entry[1], entry[2]) # None)
            => /\ DOMAIN ret.dict = {translate_erd_code(entry[1])}
               /\ ret.dict[translate_erd_code(entry[1])] = decode_erd_value(entry[1], entry[2])
               /\ (translate_erd_code(entry[1]) = DOOR_STATUS
                        /\ entry[2] = <<"0","1","0","0","0","0","0","0">>)
                    => ret.dict[DOOR_STATUS].strs =
                            <<"OPEN", "CLOSED", "CLOSED", "CLOSED", "Fridge Open">>

\* the batch {DOOR_STATUS: "01000000"} has returned {DOOR_STATUS: ... "Fridge Open"}
C20_witness ==
    /\ FreshBatchOf(DOOR_STATUS, <<"0","1","0","0","0","0","0","0">>)
    /\ DOMAIN ret.dict = {DOOR_STATUS}
    /\ ret.dict[DOOR_STATUS].strs[5] = "Fridge Open"

\* C28: the cache is written before any notification.  Whenever an update
\* callback is called with a change set, the cache of the appliance holds, at
\* the time of the call, the value of every code of the change set.
C28_cache_written_before_notification ==
    \A i \in 1..Len(calls) :
        \A code \in DOMAIN calls[i].state_changes :
            /\ code \in DOMAIN calls[i]._property_cache
            /\ calls[i]._property_cache[code] = calls[i].state_changes[code]

\* a batch has changed two codes and has then called a callback with both
C28_witness ==
    /\ op.name = "async_update_erd_values"
    /\ pc = "idle"
    /\ Len(calls) >= 1
    /\ Cardinality(DOMAIN calls[1].state_changes) = 2
    /\ calls[1]._property_cache = property_cache

----------------------------------------------------------------------------
(* Properties of the converter tables, checked under SpecTables *)

\* C22: the converter tables (the decoder and encoder tables of GeAppliance and
\* the registry of ErdSerializer) are in every reachable state the tables they
\* were constructed as: no decode, encode, update, batch update or callback
\* registration adds, removes or replaces an entry, and the tables being
\* dicts, each code has at most one converter in each.
C22_tables_never_change ==
    /\ _erd_decoders = ERD_DECODERS
    /\ _erd_encoders = ERD_ENCODERS
    /\ registry = _registry
    /\ \A code \in DOMAIN _erd_decoders :
            Cardinality({ f \in { ERD_DECODERS[c] : c \in DOMAIN ERD_DECODERS } :
                            _erd_decoders[code] = f }) = 1
    /\ \A code \in DOMAIN registry :
            Cardinality({ c \in { _registry[k] : k \in DOMAIN _registry } :
                            registry[code] = c }) = 1

\* a code without a decoder has been decoded by the int fallback, on an
\* appliance that has a callback and cached state, and the tables are as built
C22_witness ==
    /\ op.name = "decode_erd_value"
    /\ op.erd_code = USER_INTERFACE_LOCKED
    /\ ret.converter = "decode_erd_int"
    /\ ret.value = PyInt(1)
    /\ USER_INTERFACE_LOCKED \in DOMAIN property_cache
    /\ SABBATH_MODE \in DOMAIN property_cache
    /\ Len(update_functions) + Len(update_coroutines) > 0
    /\ USER_INTERFACE_LOCKED \notin DOMAIN _erd_decoders

----------------------------------------------------------------------------
(* Properties of the websocket client, checked under SpecClient *)

\* the positions of the event in the calls of async_event made for the appliance
EventsOf(event, mac_addr) ==
    { i \in 1..Len(events) : events[i].event = event /\ events[i].mac_addr = mac_addr }

CacheChanged ==
    \E mac_addr \in DOMAIN appliances \cap DOMAIN appliances' :
        appliances'[mac_addr]._property_cache # appliances[mac_addr]._property_cache

\* the last step processed a response to setErd
SetErdResponse(message) ==
    /\ request'.name = "process_message"
    /\ message.kind = "websocket#api"
    /\ message.id = "setErd"

\* the state-change events dispatched so far
StateChangeEvents(evs) ==
    SelectSeq(evs, LAMBDA ev : ev.event = EVENT_APPLIANCE_STATE_CHANGE)

SameOutcome(a, b) ==
    \/ IsRaise(a) /\ IsRaise(b)
    \/ ~IsRaise(a) /\ ~IsRaise(b) /\ a = b

\* the identifier resolves to a code that has an entry in table and a
\* converter in the registry
RegisteredInBoth(erd_code, table) ==
    /\ translate_erd_code(erd_code).isErd
    /\ translate_erd_code(erd_code) \in DOMAIN table \cap DOMAIN registry

\* C30: the two codecs agree.  For every code that has a decoder in
\* ERD_DECODERS and a converter in the registry, and every raw value,
\* ErdSerializer.decode_erd_value and GeAppliance.decode_erd_value return
\* equal values or both raise; for every code that has an encoder in
\* ERD_ENCODERS and a converter in the registry, and every value, the two
\* encode_erd_value return the same string or both raise.
C30_codecs_agree ==
    /\ (op.name = "decode_erd_value" /\ RegisteredInBoth(op.erd_code, _erd_decoders)) =>
            SameOutcome(ret.value, ErdSerializer_decode_erd_value(op.erd_code, op.erd_value))
    /\ (op.name = "ErdSerializer.decode_erd_value"
            /\ RegisteredInBoth(op.erd_code, _erd_decoders)) =>
            SameOutcome(ret.value, decode_erd_value(op.erd_code, op.erd_value))
    /\ (op.name = "encode_erd_value" /\ RegisteredInBoth(op.erd_code, _erd_encoders)) =>
            SameOutcome(ret.value, ErdSerializer_encode_erd_value(op.erd_code, op.value))
    /\ (op.name = "ErdSerializer.encode_erd_value"
            /\ RegisteredInBoth(op.erd_code, _erd_encoders)) =>
            SameOutcome(ret.value, encode_erd_value(op.erd_code, op.value))

----------------------------------------------------------------------------
(* Properties of the oven state, boolean, integer and cook-mode codecs,     *)
(* checked under SpecPrimitives                                             *)

\* the display state the oven documentation gives for a state number
OvenDisplayState(n) ==
    CASE n \in 44 .. 59 -> "OVEN_STATE_SPECIAL_X"
      [] n \in 42 .. 43 -> "OVEN_STATE_BAKED_GOODS"
      [] n \in 40 .. 41 -> "OVEN_STATE_FROZEN_PIZZA_MULTI"
      [] n \in 38 .. 39 -> "OVEN_STATE_FROZEN_SNACKS_MULTI"
      [] n \in 36 .. 37 -> "OVEN_STATE_FROZEN_PIZZA"
      [] n \in 33 .. 35 -> "OVEN_STATE_FROZEN_SNACKS"
      [] n \in 1 .. 27 -> (CHOOSE e \in ErdOvenState.numbered : e.value = n).member
      [] OTHER -> "STATUS_DASH"

\* C24: the oven current-state decoder, in erd_utils and as a converter, maps
\* every raw integer to its display state: 44..59 to SPECIAL_X, 42..43 to
\* BAKED_GOODS, 40..41 to FROZEN_PIZZA_MULTI, 38..39 to FROZEN_SNACKS_MULTI,
\* 36..37 to FROZEN_PIZZA, 33..35 to FROZEN_SNACKS, 1..27 to the member of that
\* value, and everything else to STATUS_DASH; it never raises.
C24_oven_state_ranges ==
    op.name \in {"_decode_oven_state", "ErdOvenStateConverter"} =>
        /\ ~IsRaise(ret.value)
        /\ ret.value = PyEnum("ErdOvenState", OvenDisplayState(HexToNat(op.erd_value)))
        /\ \A n \in 1 .. 27 : \E e \in ErdOvenState.numbered : e.value = n

\* both decoders have been given 59 and 60, the end of the highest range: the
\* state reached here is the legacy decoder's answer for 60
C24_witness ==
    /\ op.name = "_decode_oven_state"
    /\ HexToNat(op.erd_value) = 60
    /\ ret.value = PyEnum("ErdOvenState", "STATUS_DASH")

\* C25: the boolean decoder maps "FF" to None and every other one-byte hex
\* value to True when it is not zero and to False when it is zero, and does
\* not raise; erd_decode_bool and erd_encode_bool of converters/primitives
\* return what ErdBoolConverter returns.
C25_bool_decoder_and_helpers ==
    /\ (/\ op.name \in {"_decode_erd_bool", "ErdBoolConverter"}
        /\ Len(op.erd_value) = 2
        /\ AllHex(op.erd_value)) =>
            ret.value = IF op.erd_value = <<"F","F">> THEN None
                        ELSE PyBool(HexToNat(op.erd_value) # 0)
    /\ op.name = "erd_decode_bool" => ret.value = ErdBoolConverter_erd_decode(op.erd_value)
    /\ op.name = "erd_encode_bool" => ret.value = ErdBoolConverter_erd_encode(op.value)

\* C26: the integer encoder returns four hex characters, the two bytes of n
\* with the high byte first and padded with zeros, for every n from 0 to
\* 65535, and decoding them gives n back; for every n outside that range it
\* raises and returns no string.
C26_int_encoder_two_bytes ==
    op.name \in {"decode_erd_int(_encode_erd_int)", "ErdIntConverter.erd_decode(erd_encode)"} =>
        LET n == op.value.ints[1]
        IN  IF 0 <= n /\ n <= 65535
            THEN /\ Len(op.erd_value) = 4
                 /\ AllHex(op.erd_value)
                 /\ 256 * HexToNat(SubSeq(op.erd_value, 1, 2))
                        + HexToNat(SubSeq(op.erd_value, 3, 4)) = n
                 /\ ret.value = PyInt(n)
            ELSE /\ IsRaise(ret.value)
                 /\ op.erd_value = <<>>

\* 256 has been encoded as "0100", high byte first, and decoded back to 256
C26_witness ==
    /\ op.name = "decode_erd_int(_encode_erd_int)"
    /\ op.value = PyInt(256)
    /\ op.erd_value = <<"0","1","0","0">>
    /\ ret.value = PyInt(256)

\* the cook modes of a returned set
CookModes(v) == { v.strs[k] : k \in DOMAIN v.strs }

\* the set holds the cook mode of an entry of the table exactly when the byte
\* of that entry has the bit of its mask
ExactlyTheModesOfTheTable(v, raw) ==
    /\ v.kind = "set"
    /\ \A k \in DOMAIN v.strs : \A j \in DOMAIN v.strs : v.strs[k] = v.strs[j] => k = j
    /\ CookModes(v) \subseteq
            { ErdAvailableCookMode[i].cook_mode : i \in DOMAIN ErdAvailableCookMode }
    /\ \A i \in DOMAIN ErdAvailableCookMode :
            ErdAvailableCookMode[i].cook_mode \in CookModes(v) <=>
                Bit(fromhex(raw).ints[ErdAvailableCookMode[i].byte + 1],
                    ErdAvailableCookMode[i].mask)

CookModesDecoded == op.name \in {"_decode_cook_modes", "ErdAvailableCookModeConverter"}

\* C27, as stated: for every byte string that is not empty the
\* available-cook-modes decoder returns exactly the modes of the table entries
\* (byteIndex, bitmask, mode) with bytes[byteIndex] & bitmask != 0, and for the
\* empty input the single fall-back mode.
C27_every_byte_string ==
    CookModesDecoded =>
        IF op.erd_value = <<>>
        THEN ret.value.kind = "set" /\ CookModes(ret.value) = {"BAKE_NOOPTION"}
        ELSE ExactlyTheModesOfTheTable(ret.value, op.erd_value)

\* C27, amended: the same for a byte string of at least ten bytes; a shorter
\* one that is not empty raises IndexError, since every entry of the table is
\* looked at and the highest byte index is 9.
C27_ten_bytes_or_more ==
    CookModesDecoded =>
        IF op.erd_value = <<>>
        THEN ret.value.kind = "set" /\ CookModes(ret.value) = {"BAKE_NOOPTION"}
        ELSE IF Len(op.erd_value) >= 20
        THEN ExactlyTheModesOfTheTable(ret.value, op.erd_value)
        ELSE ret.value = Raise("IndexError")

\* ten bytes with every bit set but those of the table: no mode is available
C27_witness ==
    /\ op.name = "_decode_cook_modes"
    /\ fromhex(op.erd_value).ints = <<255, 255, 224, 255, 255, 239, 247, 251, 255, 253>>
    /\ ret.value.kind = "set"
    /\ CookModes(ret.value) = {}

----------------------------------------------------------------------------
(* Properties of the codec, checked under SpecCodec *)

\* C9: decode_erd_value(code, "") returns None for every code, with no decoder
\* or converter called, in GeAppliance and in ErdSerializer.
C9_decode_empty_is_none ==
    (op.name \in {"decode_erd_value", "ErdSerializer.decode_erd_value"} /\ op.erd_value = <<>>)
        => (ret.value = None /\ ret.converter = "none")

\* "" has been decoded for a registered code whose decoder would take ""
C9_witness ==
    /\ op.name = "decode_erd_value"
    /\ op.erd_code = ICE_MAKER_BUCKET_STATUS
    /\ op.erd_value = <<>>
    /\ ret.value = None

\* C10: encode_erd_value(code, None) returns "" for every code, with or without
\* an encoder, and raises nothing, in GeAppliance and in ErdSerializer.
C10_encode_none_is_empty ==
    (op.name \in {"encode_erd_value", "ErdSerializer.encode_erd_value"} /\ op.value = None)
        => ret.value = PyStr(<<>>)

\* None has been encoded for a code whose converter is read-only
C10_witness ==
    /\ op.name = "ErdSerializer.encode_erd_value"
    /\ op.erd_code = APPLIANCE_TYPE
    /\ op.value = None
    /\ ret.value = PyStr(<<>>)

\* C11: for a non-empty raw value, decode_erd_value returns the bytes decode
\* when the code stays an unresolved string, the decode of the registered
\* decoder when the resolved code has one, and the int decode when the code
\* resolves to a known ErdCode without one; in GeAppliance and in ErdSerializer.
C11_decode_dispatch ==
    LET code == translate_erd_code(op.erd_code)
    IN  /\ (op.name = "decode_erd_value" /\ op.erd_value # <<>>) =>
              /\ ~code.isErd =>
                    /\ ret.value = decode_erd_bytes(op.erd_value)
                    /\ ret.converter = "decode_erd_bytes"
              /\ (code.isErd /\ code \in DOMAIN ERD_DECODERS) =>
                    /\ ret.value = CallDecoder(ERD_DECODERS[code], op.erd_value)
                    /\ ret.converter = ERD_DECODERS[code]
              /\ (code.isErd /\ code \notin DOMAIN ERD_DECODERS) =>
                    /\ ret.value = decode_erd_int(op.erd_value)
                    /\ ret.converter = "decode_erd_int"
        /\ (op.name = "ErdSerializer.decode_erd_value" /\ op.erd_value # <<>>) =>
              /\ ~code.isErd =>
                    /\ ret.value = ErdBytesConverter_erd_decode(op.erd_value)
                    /\ ret.converter = "ErdBytesConverter"
              /\ (code.isErd /\ code \in DOMAIN _registry) =>
                    /\ ret.value = erd_decode(_registry[code], op.erd_value)
                    /\ ret.converter = _registry[code]
              /\ (code.isErd /\ code \notin DOMAIN _registry) =>
                    /\ ret.value = ErdIntConverter_erd_decode(op.erd_value)
                    /\ ret.converter = "ErdIntConverter"

\* "0005" has been decoded for a known code that has no decoder: the int 5
C11_witness ==
    /\ op.name = "decode_erd_value"
    /\ op.erd_code = USER_INTERFACE_LOCKED
    /\ op.erd_value = <<"0","0","0","5">>
    /\ ret.value = PyInt(5)
    /\ ret.converter = "decode_erd_int"

\* C12: encode_erd_value with a value other than None fails with one and the
\* same error class, the KeyError of the failed table lookup, both when the
\* resolved code has no registered converter and when its converter is
\* read-only; nothing is returned and the cache is unchanged.
C12_one_error_class ==
    LET code == translate_erd_code(op.erd_code)
    IN  /\ (op.name = "encode_erd_value" /\ op.value # None
                /\ code \notin DOMAIN ERD_ENCODERS) =>
              (ret.value = Raise("KeyError") /\ property_cache = EmptyDict)
        /\ (op.name = "ErdSerializer.encode_erd_value" /\ op.value # None
                /\ (code \in DOMAIN _registry => _registry[code] \in ReadOnlyConverters)) =>
              (ret.value = Raise("KeyError") /\ property_cache = EmptyDict)

\* C13: translate_erd_code raises for no identifier.  An ErdCode is returned
\* unchanged; a string equal to a member name (case-sensitive) gives that
\* member; otherwise a string whose lower-case form is a wire value gives the
\* member of that value; otherwise the string is returned unchanged.  Resolving
\* the identifier returned gives the same identifier again.
C13_translate_total_and_idempotent ==
    [][ /\ op'.name \in TranslateCalls =>
              ret'.value =
                  IF op'.erd_code.isErd THEN op'.erd_code
                  ELSE IF HasName(op'.erd_code.s) THEN Member(op'.erd_code.s)
                  ELSE IF HasValue(lower(op'.erd_code.s))
                       THEN ByValue(lower(op'.erd_code.s))
                  ELSE op'.erd_code
        /\ (op.name \in TranslateCalls /\ op'.name \in TranslateCalls) =>
              (op'.erd_code = ret.value /\ ret'.value = ret.value) ]_vars

\* "0X000A" has been resolved to SOUND_LEVEL through its lower-case form
C13_witness ==
    /\ op.name = "translate_erd_code"
    /\ op.erd_code = Str(<<"0","X","0","0","0","A">>)
    /\ ret.value = SOUND_LEVEL

----------------------------------------------------------------------------
(* Properties of the converters, checked under SpecConverters *)

\* the range of test_signed_byte
SignedByteRange == { PyInt(n) : n \in -127 .. 128 }

\* C14: for every integer n in [-127, 128],
\* decode_signed_byte(encode_signed_byte(n)) = n; the same holds of
\* ErdSignedByteConverter.
C14_signed_byte_round_trip ==
    (/\ op.name \in {"decode_signed_byte(encode_signed_byte)",
                     "ErdSignedByteConverter.erd_decode(erd_encode)"}
     /\ op.value \in SignedByteRange)
        => ret.value = op.value

\* -127 has been encoded as "81" and decoded as -127 again
C14_witness ==
    /\ op.name = "decode_signed_byte(encode_signed_byte)"
    /\ op.value = PyInt(-127)
    /\ op.erd_value = <<"8","1">>
    /\ ret.value = PyInt(-127)

\* C15: for every duration of m whole minutes, m in [0, 65534], decoding the
\* encoded timespan gives the same duration again, and decoding the encoding of
\* None gives None; the same holds of ErdTimeSpanConverter.
C15_timespan_round_trip ==
    (/\ op.name \in {"_decode_timespan(_encode_timespan)",
                     "ErdTimeSpanConverter.erd_decode(erd_encode)"}
     /\ \/ op.value = None
        \/ op.value.kind = "timedelta" /\ op.value.ints[1] \in 0 .. 65534)
        => ret.value = op.value

\* C16: for every cook mode of OVEN_COOK_MODE_MAP and every temperature that
\* fits in two bytes, encoding an OvenCookSetting succeeds, and decoding the
\* result gives a setting with the same cook_mode and the same temperature.
C16_cook_mode_round_trip ==
    (/\ op.name \in {"_decode_oven_cook_mode(_encode_oven_cook_mode)",
                     "OvenCookModeConverter.erd_decode(erd_encode)"}
     /\ \E m \in DOMAIN OVEN_COOK_MODE_MAP : OVEN_COOK_MODE_MAP[m] = cook_mode_of(op.value)
     /\ temperature_of(op.value) \in 0 .. 65535)
        => /\ ret.value.kind = "OvenCookSetting"
           /\ cook_mode_of(ret.value) = cook_mode_of(op.value)
           /\ temperature_of(ret.value) = temperature_of(op.value)

\* the decoders of enums
EnumDecoders == {
    "_decode_appliance_type", "_decode_measurement_unit", "_decode_sound_level",
    "_decode_clock_format", "_decode_end_tone", "_decode_filter_status",
    "ErdApplianceTypeConverter", "ErdMeasurementUnitsConverter", "ErdSoundLevelConverter",
    "ErdClockFormatConverter", "ErdEndToneConverter", "ErdFilterStatusConverter" }

\* the members of the enum a decoder of enums looks its raw value up in, and
\* what it looks up
EnumOf(decoder) ==
    CASE decoder \in {"_decode_appliance_type", "ErdApplianceTypeConverter"} -> ErdApplianceType
      [] decoder \in {"_decode_measurement_unit", "ErdMeasurementUnitsConverter"} ->
            ErdMeasurementUnits
      [] decoder \in {"_decode_sound_level", "ErdSoundLevelConverter"} -> ErdSoundLevel
      [] decoder \in {"_decode_clock_format", "ErdClockFormatConverter"} -> ErdClockFormat
      [] decoder \in {"_decode_end_tone", "ErdEndToneConverter"} -> ErdEndTone
      [] decoder \in {"_decode_filter_status", "ErdFilterStatusConverter"} -> ErdFilterStatus
RawCode(decoder, value) ==
    CASE decoder \in {"_decode_measurement_unit", "ErdMeasurementUnitsConverter"} ->
            IF IsRaise(int10(value)) THEN -1 ELSE int10(value).ints[1]
      [] decoder \in {"_decode_sound_level", "ErdSoundLevelConverter"} ->
            IF IsRaise(int16(value)) THEN -1 ELSE int16(value).ints[1]
      [] decoder \in {"_decode_filter_status", "ErdFilterStatusConverter"} ->
            IF slice(value, 0, 2) = <<"0","0">> THEN slice(value, 2, 4) ELSE slice(value, 0, 2)
      [] OTHER -> value

\* C17: for each of the appliance-type, measurement-units, sound-level,
\* clock-format, end-tone and filter-status decoders, a non-empty raw value that
\* matches no member of the enum decodes to the enum's NA or UNKNOWN member;
\* the decoder raises nothing.
C17_unrecognized_decodes_to_na ==
    (/\ op.name \in EnumDecoders
     /\ op.erd_value # <<>>
     /\ ~\E e \in EnumOf(op.name) : e.value = RawCode(op.name, op.erd_value))
        => /\ ~IsRaise(ret.value)
           /\ ret.value.strs \in {<<"NA">>, <<"UNKNOWN">>}

\* C18: for every ice-bucket bitfield (bit0 fridge bucket present, bit1 freezer
\* bucket present, bit2 fridge full, bit3 freezer full) a compartment's state is
\* NA exactly when its bucket is absent; the total status is NA exactly when
\* neither bucket is present, otherwise NOT_FULL when a present bucket is not
\* full, otherwise FULL.
C18_ice_bucket_status ==
    (/\ op.name \in {"_decode_ice_bucket_status", "FridgeIceBucketStatusConverter"}
     /\ op.erd_value \in IceBucketRaws)
        => LET n == HexToNat(op.erd_value)
               present_ff == Bit(n, 1)
               present_fz == Bit(n, 2)
           IN  /\ ret.value.kind = "FridgeIceBucketStatus"
               /\ (ret.value.strs[1] = "NA") <=> ~present_ff
               /\ (ret.value.strs[2] = "NA") <=> ~present_fz
               /\ ret.value.strs[3] =
                     IF ~present_ff /\ ~present_fz THEN "NA"
                     ELSE IF \/ present_ff /\ ~Bit(n, 4)
                             \/ present_fz /\ ~Bit(n, 8)
                          THEN "NOT_FULL"
                     ELSE "FULL"

\* the door field at byte i of the raw value: an unrecognized byte is NA
DoorField(value, i) ==
    LET byte == SubSeq(value, 2 * i - 1, 2 * i)
    IN  IF byte = <<"0","0">> THEN "CLOSED" ELSE IF byte = <<"0","1">> THEN "OPEN" ELSE "NA"
DoorCall ==
    /\ op.name \in {"_decode_fridge_door", "FridgeDoorStatusConverter"}
    /\ op.erd_value \in DoorRaws
FridgeOpen == DoorField(op.erd_value, 1) = "OPEN" \/ DoorField(op.erd_value, 2) = "OPEN"
DoorFieldsRead ==
    /\ ret.value.kind = "FridgeDoorStatus"
    /\ \A i \in 1 .. 4 : ret.value.strs[i] = DoorField(op.erd_value, i)

\* C19, as stated: the aggregate is "All Open" if the freezer is open and either
\* fridge door is open, "Fridge Open" if the freezer is closed and either fridge
\* door is open, "Freezer Open" if no fridge door is open but the freezer is, and
\* "Closed" in every other case; an unrecognized field byte is read as NA.
C19_door_status_freezer_closed ==
    DoorCall =>
        /\ DoorFieldsRead
        /\ ret.value.strs[5] =
              IF DoorField(op.erd_value, 3) = "OPEN" /\ FridgeOpen THEN "All Open"
              ELSE IF DoorField(op.erd_value, 3) = "CLOSED" /\ FridgeOpen THEN "Fridge Open"
              ELSE IF ~FridgeOpen /\ DoorField(op.erd_value, 3) = "OPEN" THEN "Freezer Open"
              ELSE "Closed"

\* C19, amended: the aggregate is "Fridge Open" whenever either fridge door is
\* open and the freezer is not open, closed or not-applicable alike; the other
\* three cases and the reading of the fields are as stated.
C19_door_status_freezer_not_open ==
    DoorCall =>
        /\ DoorFieldsRead
        /\ ret.value.strs[5] =
              IF DoorField(op.erd_value, 3) = "OPEN" /\ FridgeOpen THEN "All Open"
              ELSE IF FridgeOpen THEN "Fridge Open"
              ELSE IF DoorField(op.erd_value, 3) = "OPEN" THEN "Freezer Open"
              ELSE "Closed"

\* "0001FF00" has been decoded: the left fridge door is open and the freezer is
\* not-applicable, "Fridge Open"
C19_witness ==
    /\ op.name = "_decode_fridge_door"
    /\ op.erd_value = <<"0","0","0","1","F","F","0","0">>
    /\ ret.value.strs = <<"CLOSED", "OPEN", "NA", "CLOSED", "Fridge Open">>

====
